---- MODULE Spec2Model ----
(***************************************************************************)
(* A model of the Monkey interpreter of monkey-rs: the token stream the    *)
(* parser pulls from the lexer, the Pratt parser (src/src/parser.rs) and   *)
(* the tree-walking evaluator (src/src/evaluator.rs, src/src/object.rs).   *)
(*                                                                         *)
(* Strings are sequences of one-character strings, so that formatting and  *)
(* parsing of literals are computed and not assumed.                       *)
(***************************************************************************)
EXTENDS Integers, Sequences, FiniteSets, TLC

VARIABLES
    \* evaluator (Eval::eval_program / Eval::eval_block_statement)
    mode,             \* "program": eval_statements runs; "block": eval_block_statement runs
    stmts,            \* the statements the running loop iterates over
    idx,              \* how many of them the for loop has taken
    result,           \* the local `result` of the running loop
    pc,               \* "loop", "break", "returned", "panicked", "idle"
    overflow_checks,  \* the build: TRUE panics on i64 overflow, FALSE wraps
    \* parser (Parser::parse_program)
    parser,           \* lexer, current_token, peek_token, errors
    program,          \* Program.statements built so far
    parsed,           \* what parse_program returned: None or Some(statements)
    ppc,              \* "loop", "done", "idle"
    \* lexer (Lexer::next_token called again and again)
    lex,              \* the Lexer: input, position, read_position, ch
    lex_tok,          \* the token the last call returned, None before the first
    lex_eofs,         \* how many calls have returned EOF
    \* whole runs
    text,             \* the source text given to Lexer::new, None when there is none
    tree              \* the Program whose to_string is taken, None when there is none

evars == <<mode, stmts, idx, result, pc, overflow_checks>>
pvars == <<parser, program, parsed, ppc>>
lvars == <<lex, lex_tok, lex_eofs, text, tree>>
vars == <<mode, stmts, idx, result, pc, overflow_checks, parser, program, parsed, ppc,
          lex, lex_tok, lex_eofs, text, tree>>

----------------------------------------------------------------------------
(* Bounds of the model *)

\* integer literals of the evaluated trees are 1..MaxLit
MaxLit == 2
\* longest block of the evaluated trees
MaxBlockLen == 2
\* longest top-level program of the evaluated trees
MaxProgLen == 3
\* the model's i64 has I64Bits bits
I64Bits == 8
\* longest input of the parser drawn freely from its alphabet
MaxToks == 3
\* longest input of the lexer drawn freely from its alphabet
MaxChars == 3
\* calls of next_token that are followed after they have returned EOF
MaxEofs == 2
\* the arguments of a call that is printed
MaxArgs == 2

----------------------------------------------------------------------------
(* Option, strings *)

None == <<>>
Some(x) == <<x>>
IsNone(o) == o = <<>>
IsSome(o) == o # <<>>
Unwrap(o) == o[1]

SeqsUpTo(S, n) == UNION {[1..k -> S] : k \in 0..n}

S_true == <<"t", "r", "u", "e">>
S_false == <<"f", "a", "l", "s", "e">>
S_return == <<"r", "e", "t", "u", "r", "n">>
S_let == <<"l", "e", "t">>
S_if == <<"i", "f">>
S_else == <<"e", "l", "s", "e">>
S_fn == <<"f", "n">>

Digits == <<"0", "1", "2", "3", "4", "5", "6", "7", "8", "9">>
IsDigitChar(c) == \E d \in 1..10 : Digits[d] = c
DigitValue(c) == (CHOOSE d \in 1..10 : Digits[d] = c) - 1

I64_MAX == 2 ^ (I64Bits - 1) - 1
I64_MIN == -(2 ^ (I64Bits - 1))
InI64(v) == I64_MIN <= v /\ v <= I64_MAX
\* two's complement wrap-around of an exact result
WrapI64(v) == ((v - I64_MIN) % (2 ^ I64Bits)) + I64_MIN

RECURSIVE FormatNat(_)
FormatNat(n) ==
    IF n < 10 THEN <<Digits[n + 1]>>
    ELSE FormatNat(n \div 10) \o <<Digits[(n % 10) + 1]>>

\* format!("{}", v) of an i64
FormatI64(v) == IF v < 0 THEN <<"-">> \o FormatNat(-v) ELSE FormatNat(v)

\* format!("{}", v) of a bool
FormatBool(b) == IF b THEN S_true ELSE S_false

\* the digits of s read as a magnitude, digit by digit
RECURSIVE DigitsValue(_, _)
DigitsValue(s, acc) ==
    IF s = <<>> THEN acc
    ELSE DigitsValue(Tail(s), acc * 10 + DigitValue(Head(s)))

RECURSIVE StripZeros(_)
StripZeros(s) ==
    IF Len(s) > 1 /\ Head(s) = "0" THEN StripZeros(Tail(s)) ELSE s

\* str::parse::<i64>: an optional sign, at least one digit, nothing else,
\* and a value of the i64 range; [ok, val]
ParseI64(s) ==
    LET signed == s # <<>> /\ Head(s) \in {"-", "+"}
        body == IF signed THEN Tail(s) ELSE s
        wellformed == body # <<>> /\ \A i \in 1..Len(body) : IsDigitChar(body[i])
        sig == IF wellformed THEN StripZeros(body) ELSE <<"0">>
        \* more significant digits than the range has cannot fit
        fits == Len(sig) <= Len(FormatNat(I64_MAX))
        mag == IF fits THEN DigitsValue(sig, 0) ELSE 0
        val == IF signed /\ Head(s) = "-" THEN -mag ELSE mag
    IN  IF wellformed /\ fits /\ InI64(val)
        THEN [ok |-> TRUE, val |-> val]
        ELSE [ok |-> FALSE, val |-> 0]

\* str::parse::<bool>: exactly "true" or "false"
ParseBool(s) ==
    IF s = S_true THEN [ok |-> TRUE, val |-> TRUE]
    ELSE IF s = S_false THEN [ok |-> TRUE, val |-> FALSE]
    ELSE [ok |-> FALSE, val |-> FALSE]

----------------------------------------------------------------------------
(* Tokens and the tree (token.rs, ast.rs) *)

Token(type, literal) == [type |-> type, literal |-> literal]

Identifier(token, value) == [kind |-> "Identifier", token |-> token, ident |-> value]
IntegerLiteral(token, value) == [kind |-> "IntegerLiteral", token |-> token, int |-> value]
BooleanLiteral(token, value) == [kind |-> "BooleanLiteral", token |-> token, bool |-> value]
FunctionLiteral(token, parameters, body) ==
    [kind |-> "FunctionLiteral", token |-> token, parameters |-> parameters, body |-> body]
PrefixExpression(token, operator, right_exp) ==
    [kind |-> "PrefixExpression", token |-> token, operator |-> operator,
     right_exp |-> right_exp]
InfixExpression(token, operator, left_exp, right_exp) ==
    [kind |-> "InfixExpression", token |-> token, operator |-> operator,
     left_exp |-> left_exp, right_exp |-> right_exp]
IfExpression(token, condition, consequence, alternative) ==
    [kind |-> "IfExpression", token |-> token, condition |-> condition,
     consequence |-> consequence, alternative |-> alternative]
CallExpression(token, function, arguments) ==
    [kind |-> "CallExpression", token |-> token, function |-> function,
     arguments |-> arguments]

ExpressionStatement(token, expression) ==
    [kind |-> "ExpressionStatement", token |-> token, expression |-> expression]
\* a let statement with its name and its value in each other's place
LetStatement_swapped(token, name, value) ==
    [kind |-> "LetStatement", token |-> token, name |-> value, value |-> name]
LetStatement(token, name, value) ==
    [kind |-> "LetStatement", token |-> token, name |-> name, value |-> value]
ReturnStatement(token, return_value) ==
    [kind |-> "ReturnStatement", token |-> token, return_value |-> return_value]
BlockStatement(token, statements) ==
    [kind |-> "BlockStatement", token |-> token, statements |-> statements]

----------------------------------------------------------------------------
(* The pretty-printer (ast.rs): to_string of expressions, statements, programs *)

\* write!(s, "({} {} {})", left, operator, right) without its parentheses
infix_to_string_bare(left, operator, right) ==
    left \o <<" ">> \o operator \o <<" ">> \o right

\* write!(s, "({} {} {})", left, operator, right)
infix_to_string(left, operator, right) ==
    <<"(">> \o left \o <<" ">> \o operator \o <<" ">> \o right \o <<")">>

\* what follows the name of a let statement: " = <v>" unless v is empty
let_value_to_string(v) ==
    IF v # <<>> THEN <<" ", "=", " ">> \o v ELSE <<>>

\* what follows "return ": write!(s, " {} {}", " =", &v) unless v is empty
return_value_to_string(v) ==
    IF v # <<>> THEN <<" ">> \o <<" ", "=">> \o <<" ">> \o v ELSE <<>>

RECURSIVE expression_to_string(_), statement_to_string(_),
          statements_to_string(_), join_to_string(_)

\* the loops over parameters and arguments: the first as it is, the others
\* behind ", "
join_to_string(expressions) ==
    IF expressions = <<>> THEN <<>>
    ELSE IF Len(expressions) = 1 THEN expression_to_string(expressions[1])
    ELSE join_to_string(SubSeq(expressions, 1, Len(expressions) - 1))
         \o <<",", " ">> \o expression_to_string(expressions[Len(expressions)])

\* the loops over statements: one after the other, nothing between them
statements_to_string(statements) ==
    IF statements = <<>> THEN <<>>
    ELSE statement_to_string(Head(statements))
         \o statements_to_string(Tail(statements))

expression_to_string(expression) ==
    CASE expression.kind = "Identifier" -> expression.ident
      [] expression.kind = "IntegerLiteral" -> FormatI64(expression.int)
      [] expression.kind = "BooleanLiteral" -> FormatBool(expression.bool)
      [] expression.kind = "FunctionLiteral" ->
            expression.token.literal \o <<"(">>
            \o join_to_string(expression.parameters) \o <<")">>
            \o statement_to_string(expression.body)
      [] expression.kind = "PrefixExpression" ->
            <<"(">> \o expression.operator
            \o expression_to_string(expression.right_exp) \o <<")">>
      [] expression.kind = "InfixExpression" ->
            infix_to_string(expression_to_string(expression.left_exp),
                            expression.operator,
                            expression_to_string(expression.right_exp))
      [] expression.kind = "IfExpression" ->
            S_if \o <<" ">> \o expression_to_string(expression.condition)
            \o statement_to_string(expression.consequence)
            \o (IF IsSome(expression.alternative)
                THEN <<" ">> \o S_else
                     \o statement_to_string(Unwrap(expression.alternative))
                ELSE <<>>)
      [] expression.kind = "CallExpression" ->
            expression_to_string(expression.function) \o <<"(">>
            \o join_to_string(expression.arguments) \o <<")">>

statement_to_string(statement) ==
    CASE statement.kind = "LetStatement" ->
            (statement.token.literal \o <<" ">>)
            \o expression_to_string(statement.name)
            \o let_value_to_string(expression_to_string(statement.value))
            \o <<";">>
      [] statement.kind = "ReturnStatement" ->
            (statement.token.literal \o <<" ">>)
            \o return_value_to_string(expression_to_string(statement.return_value))
            \o <<";">>
      [] statement.kind = "ExpressionStatement" ->
            expression_to_string(statement.expression) \o <<";">>
      [] statement.kind = "BlockStatement" ->
            <<"{">> \o statements_to_string(statement.statements) \o <<"}">>

\* Program::to_string
program_to_string(statements) == statements_to_string(statements)

----------------------------------------------------------------------------
(* Runtime values (object.rs) *)

NULL == [type |-> "NULL"]
Integer(v) == [type |-> "INTEGER", int |-> v]
Boolean(v) == [type |-> "BOOLEAN", bool |-> v]
BOOLEAN_TRUE == Boolean(TRUE)
BOOLEAN_FALSE == Boolean(FALSE)
ReturnValue(v) == [type |-> "RETURN_VALUE", value |-> v]

\* not an Object: the evaluation unwound (panic!, unimplemented!, unwrap on Err)
PANIC == [type |-> "PANIC"]
IsPanic(v) == v.type = "PANIC"

get_type(obj) == obj.type
is_integer(t) == t = "INTEGER"
is_boolean(t) == t = "BOOLEAN"
is_null(t) == t = "NULL"
is_return_value(t) == t = "RETURN_VALUE"

inspect(obj) ==
    CASE obj.type = "INTEGER" -> FormatI64(obj.int)
      [] obj.type = "BOOLEAN" -> FormatBool(obj.bool)
      [] OTHER -> <<"n", "u", "l", "l">>

is_truthy(obj) ==
    IF is_null(get_type(obj)) THEN TRUE
    ELSE IF obj.type = "BOOLEAN" THEN obj.bool
    ELSE TRUE

----------------------------------------------------------------------------
(* The evaluator (evaluator.rs) *)

\* an i64 result of + - * or unary -: in range, or the build decides
Arith(exact) ==
    IF InI64(exact) THEN Integer(exact)
    ELSE IF overflow_checks THEN PANIC
    ELSE Integer(WrapI64(exact))

\* i64 division truncates toward zero
TruncDiv(a, b) ==
    LET q == (IF a < 0 THEN -a ELSE a) \div (IF b < 0 THEN -b ELSE b)
    IN  IF (a < 0) = (b < 0) THEN q ELSE -q

\* i64 `/`: a zero divisor and MIN / -1 panic in every build
Divide(a, b) ==
    IF b = 0 THEN PANIC
    ELSE IF ~InI64(TruncDiv(a, b)) THEN PANIC
    ELSE Integer(TruncDiv(a, b))

eval_bang_operation(right) ==
    IF right.type = "BOOLEAN"
    THEN (IF right.bool THEN BOOLEAN_FALSE ELSE BOOLEAN_TRUE)
    ELSE BOOLEAN_FALSE

eval_minus_operation(right) ==
    IF right.type = "INTEGER" THEN Arith(-right.int) ELSE NULL

eval_prefix_expression(operator, right) ==
    CASE operator = <<"!">> -> eval_bang_operation(right)
      [] operator = <<"-">> -> eval_minus_operation(right)
      [] OTHER -> NULL

eval_integer_infix_expression(operator, left, right) ==
    LET l == ParseI64(inspect(left))
        r == ParseI64(inspect(right))
    IN  IF ~l.ok \/ ~r.ok THEN PANIC
        ELSE CASE operator = <<"+">> -> Arith(l.val + r.val)
               [] operator = <<"-">> -> Arith(l.val - r.val)
               [] operator = <<"*">> -> Arith(l.val * r.val)
               [] operator = <<"/">> -> Divide(l.val, r.val)
               [] operator = <<"<">> -> Boolean(l.val < r.val)
               [] operator = <<">">> -> Boolean(l.val > r.val)
               [] operator = <<"=", "=">> -> Boolean(l.val = r.val)
               [] operator = <<"!", "=">> -> Boolean(l.val # r.val)
               [] OTHER -> NULL

eval_boolean_infix_expression(operator, left, right) ==
    LET l == ParseBool(inspect(left))
        r == ParseBool(inspect(right))
    IN  IF ~l.ok \/ ~r.ok THEN PANIC
        ELSE CASE operator = <<"=", "=">> -> Boolean(l.val = r.val)
               [] operator = <<"!", "=">> -> Boolean(l.val # r.val)
               [] OTHER -> NULL

eval_infix_expression(operator, left, right) ==
    LET left_type == get_type(left)
        right_type == get_type(right)
    IN  IF is_integer(left_type) /\ is_integer(right_type)
        THEN eval_integer_infix_expression(operator, left, right)
        ELSE IF is_boolean(left_type) /\ is_boolean(right_type)
        THEN eval_boolean_infix_expression(operator, left, right)
        ELSE NULL

RECURSIVE eval_statement(_)
RECURSIVE eval_expression(_)
RECURSIVE eval_block_from(_, _, _)

\* a return that hands its operand on without the envelope
eval_return_statement_bare(return_value) == eval_expression(return_value)

eval_return_statement(return_value) ==
    LET value == eval_expression(return_value)
    IN  IF IsPanic(value) THEN PANIC ELSE ReturnValue(value)

eval_expression_statement(statement) ==
    eval_expression(statement.expression)

\* the for loop of eval_block_statement from its i-th statement on
eval_block_from(statements, i, res) ==
    IF i > Len(statements) THEN res
    ELSE LET r == eval_statement(statements[i])
         IN  IF IsPanic(r) THEN r
             ELSE eval_block_from(statements, i + 1, r)

eval_block_statement(block) ==
    IF block.kind = "BlockStatement"
    THEN eval_block_from(block.statements, 1, NULL)
    ELSE NULL

eval_statement(statement) ==
    CASE statement.kind = "ExpressionStatement" -> eval_expression_statement(statement)
      [] statement.kind = "LetStatement" -> PANIC
      [] statement.kind = "ReturnStatement" ->
            eval_return_statement(statement.return_value)
      [] statement.kind = "BlockStatement" -> eval_block_statement(statement)

eval_expression(expression) ==
    CASE expression.kind = "Identifier" -> PANIC
      [] expression.kind = "IntegerLiteral" -> Integer(expression.int)
      [] expression.kind = "BooleanLiteral" ->
            (IF expression.bool THEN BOOLEAN_TRUE ELSE BOOLEAN_FALSE)
      [] expression.kind = "FunctionLiteral" -> PANIC
      [] expression.kind = "PrefixExpression" ->
            LET right == eval_expression(expression.right_exp)
            IN  IF IsPanic(right) THEN PANIC
                ELSE eval_prefix_expression(expression.operator, right)
      [] expression.kind = "InfixExpression" ->
            LET left == eval_expression(expression.left_exp)
                right == eval_expression(expression.right_exp)
            IN  IF IsPanic(left) \/ IsPanic(right) THEN PANIC
                ELSE eval_infix_expression(expression.operator, left, right)
      [] expression.kind = "IfExpression" ->
            LET cond == eval_expression(expression.condition)
            IN  IF IsPanic(cond) THEN PANIC
                ELSE IF is_truthy(cond) THEN eval_statement(expression.consequence)
                ELSE IF IsSome(expression.alternative)
                THEN eval_statement(Unwrap(expression.alternative))
                ELSE NULL
      [] expression.kind = "CallExpression" -> PANIC

\* a loop that never breaks
eval_statements_breaks_never(r) == FALSE

\* the test that ends the for loop of eval_statements
eval_statements_breaks(r) == is_return_value(get_type(r))


----------------------------------------------------------------------------
(* The parser (parser.rs) *)

\* enum Opt, ordered by its derive(PartialOrd)
LOWEST == 0
EQUALS == 1
LESSGREATER == 2
SUM == 3
PRODUCT == 4
PREFIX == 5
CALL == 6

\* a table that gives every binary operator the precedence of a sum
precedences_flat(token_type) ==
    CASE token_type \in {"EQ", "NEQ", "PLUS", "MINUS", "ASTERISK", "SLASH", "LT", "GT"} -> SUM
      [] token_type = "LPAREN" -> CALL
      [] OTHER -> LOWEST

precedences(token_type) ==
    CASE token_type \in {"EQ", "NEQ"} -> EQUALS
      [] token_type \in {"PLUS", "MINUS"} -> SUM
      [] token_type \in {"ASTERISK", "SLASH"} -> PRODUCT
      [] token_type \in {"LT", "GT"} -> LESSGREATER
      [] token_type = "LPAREN" -> CALL
      [] OTHER -> LOWEST

\* The lexer as the parser sees it: the tokens its input lexes to and the
\* position of the next one.  At the end of the input it answers EOF for
\* ever; on a character it does not know it answers ILLEGAL and does not
\* advance, so it answers the same ILLEGAL for ever.
Lexer(tokens) == [tokens |-> tokens, position |-> 1]

lexer_next_token(lexer) ==
    IF lexer.position > Len(lexer.tokens)
    THEN [token |-> Token("EOF", <<>>), lexer |-> lexer]
    ELSE IF lexer.tokens[lexer.position].type = "ILLEGAL"
    THEN [token |-> lexer.tokens[lexer.position], lexer |-> lexer]
    ELSE [token |-> lexer.tokens[lexer.position],
          lexer |-> [lexer EXCEPT !.position = @ + 1]]

\* Parser::new: both tokens primed, no errors.  `failed` is a history flag:
\* some parse routine has returned None / false.
ParserNew(lexer) ==
    LET first == lexer_next_token(lexer)
        second == lexer_next_token(first.lexer)
    IN  [lexer |-> second.lexer, current_token |-> first.token,
         peek_token |-> second.token, errors |-> <<>>, failed |-> FALSE]

peek_token_is(p, token_type) == p.peek_token.type = token_type
current_token_is(p, token_type) == p.current_token.type = token_type

\* `let x = v;` followed by the code F that uses x: v is computed once
Bind(v, F(_)) == CHOOSE y \in {F(x) : x \in {v}} : TRUE

next_token(p) ==
    Bind(p, LAMBDA q :
        Bind(lexer_next_token(q.lexer), LAMBDA n :
            [q EXCEPT !.current_token = q.peek_token, !.peek_token = n.token,
                      !.lexer = n.lexer]))

current_precedence(p) == precedences(p.current_token.type)
peek_precedence(p) == precedences(p.peek_token.type)
peek_token_is_infix(p) == peek_precedence(p) # LOWEST

\* errors.push(msg): the message's kind and, for an expect error, the kinds
PushError(p, msg, expect, actual) ==
    [p EXCEPT !.errors = Append(@, [msg |-> msg, expect |-> expect, actual |-> actual])]

\* an ILLEGAL / EOF stop that records nothing
make_illegal_error_silent(p) == p
make_illegal_error(p) == PushError(p, "illegal", "", "")
\* a parse_program that adds nothing for a failed statement
make_parse_statement_error_silent(p) == p
make_parse_statement_error(p) == PushError(p, "parse_statement", "", "")
make_parse_expression_error(p) == PushError(p, "parse_expression", "", "")
make_parse_identifier_error(p) == PushError(p, "parse_identifier", "", "")
make_parse_integer_literal_error(p) == PushError(p, "parse_integer_literal", "", "")
make_parse_boolean_literal_error(p) == PushError(p, "parse_boolean_literal", "", "")
make_parse_parameters_error(p) == PushError(p, "parse_parameters", "", "")
make_parse_block_statement_error(p) == PushError(p, "parse_block_statement", "", "")
make_parse_call_arguments_error(p) == PushError(p, "parse_call_arguments", "", "")
make_unknown_token_error(p) == PushError(p, "unknown_token", "", "")
make_current_expect_error(p, expect_type) ==
    PushError(p, "current_expect", expect_type, p.current_token.type)
make_peek_expect_error(p, expect_type) ==
    PushError(p, "peek_expect", expect_type, p.peek_token.type)

\* what a parse routine hands back: Some(node) / true, or None / false, and
\* the parser as the routine left it
Ok(node, p) == [ok |-> TRUE, node |-> node, p |-> p]
Failed(p) == [ok |-> FALSE, node |-> None, p |-> [p EXCEPT !.failed = TRUE]]

RECURSIVE parse_statement(_)
RECURSIVE parse_expression(_, _)
RECURSIVE parse_expression_loop(_, _, _)
RECURSIVE parse_block_statement(_)
RECURSIVE parse_block_loop(_, _, _)
RECURSIVE parse_call_arguments_loop(_, _)

parse_identifier(p) ==
    IF current_token_is(p, "EOF") \/ current_token_is(p, "ILLEGAL")
    THEN Failed(make_parse_identifier_error(p))
    ELSE Ok(Identifier(p.current_token, p.current_token.literal), p)

parse_integer_literal(p) ==
    LET lit == ParseI64(p.current_token.literal)
    IN  IF ~lit.ok THEN Failed(make_parse_integer_literal_error(p))
        ELSE Ok(IntegerLiteral(p.current_token, lit.val), p)

parse_boolean_literal(p) ==
    LET lit == ParseBool(p.current_token.literal)
    IN  IF ~lit.ok THEN Failed(make_parse_boolean_literal_error(p))
        ELSE Ok(BooleanLiteral(p.current_token, lit.val), p)

\* the loop of parse_function_parameters
RECURSIVE parse_function_parameters_loop(_, _)
parse_function_parameters_loop(p, parameters) ==
    Bind(parse_identifier(p), LAMBDA ident_opt :
        IF ~ident_opt.ok THEN Failed(ident_opt.p)
        ELSE LET ps == Append(parameters, ident_opt.node)
             IN  IF peek_token_is(p, "COMMA")
                 THEN parse_function_parameters_loop(next_token(next_token(p)), ps)
                 ELSE IF peek_token_is(p, "RPAREN")
                 THEN Ok(ps, next_token(p))
                 ELSE Failed(p))

parse_function_parameters(p) ==
    IF current_token_is(p, "RPAREN") THEN Ok(<<>>, p)
    ELSE parse_function_parameters_loop(p, <<>>)

parse_function_literal(p) ==
    IF ~current_token_is(p, "FUNCTION")
    THEN Failed(make_current_expect_error(p, "FUNCTION"))
    ELSE IF ~peek_token_is(p, "LPAREN")
    THEN Failed(make_peek_expect_error(p, "LPAREN"))
    ELSE Bind(parse_function_parameters(next_token(next_token(p))), LAMBDA params :
        IF ~params.ok THEN Failed(make_parse_parameters_error(params.p))
        ELSE IF ~peek_token_is(params.p, "LBRACE")
        THEN Failed(make_peek_expect_error(params.p, "LBRACE"))
        ELSE Bind(parse_block_statement(next_token(params.p)), LAMBDA body :
            IF ~body.ok
            THEN Failed(make_parse_block_statement_error(body.p))
            ELSE Ok(FunctionLiteral(p.current_token, params.node, body.node), body.p)))

\* the loop of parse_call_arguments
parse_call_arguments_loop(p, arguments) ==
    Bind(parse_expression(p, LOWEST), LAMBDA e :
        IF ~e.ok THEN Failed(make_parse_expression_error(e.p))
        ELSE LET as == Append(arguments, e.node)
             IN  IF peek_token_is(e.p, "COMMA")
                 THEN parse_call_arguments_loop(next_token(next_token(e.p)), as)
                 ELSE IF peek_token_is(e.p, "RPAREN")
                 THEN Ok(as, next_token(e.p))
                 ELSE Failed(e.p))

parse_call_arguments(p) ==
    IF current_token_is(p, "RPAREN") THEN Ok(<<>>, p)
    ELSE parse_call_arguments_loop(p, <<>>)

parse_call_expression(p, function) ==
    IF ~current_token_is(p, "LPAREN")
    THEN Failed(make_current_expect_error(p, "LPAREN"))
    ELSE Bind(parse_call_arguments(next_token(p)), LAMBDA args :
        IF ~args.ok THEN Failed(make_parse_call_arguments_error(args.p))
        ELSE Ok(CallExpression(p.current_token, function, args.node), args.p))

parse_prefix_expression(p) ==
    Bind(parse_expression(next_token(p), PREFIX), LAMBDA exp :
        IF ~exp.ok THEN Failed(exp.p)
        ELSE Ok(PrefixExpression(p.current_token, p.current_token.literal, exp.node),
                exp.p))

parse_infix_expression(p, left) ==
    Bind(parse_expression(next_token(p), current_precedence(p)), LAMBDA right :
        IF ~right.ok THEN Failed(right.p)
        ELSE Ok(InfixExpression(p.current_token, p.current_token.literal, left,
                                right.node),
                right.p))

\* the else part of parse_if_expression, p on the token after the then-block
parse_if_alternative(p) ==
    IF current_token_is(p, "ELSE")
    THEN IF ~peek_token_is(p, "LBRACE") THEN Failed(next_token(p))
         ELSE Bind(parse_block_statement(next_token(p)), LAMBDA alt :
             IF alt.ok THEN Ok(Some(alt.node), next_token(alt.p))
             ELSE Ok(None, alt.p))
    ELSE Ok(None, p)

parse_if_expression(p) ==
    Bind(parse_expression(next_token(p), LOWEST), LAMBDA condition :
        IF ~condition.ok THEN Failed(condition.p)
        ELSE IF ~current_token_is(condition.p, "RPAREN") THEN Failed(condition.p)
        ELSE IF ~peek_token_is(condition.p, "LBRACE")
        THEN Failed(next_token(condition.p))
        ELSE Bind(parse_block_statement(next_token(condition.p)), LAMBDA consequence :
            IF ~consequence.ok THEN Failed(consequence.p)
            ELSE Bind(parse_if_alternative(next_token(consequence.p)), LAMBDA alt :
                IF ~alt.ok THEN Failed(alt.p)
                ELSE Ok(IfExpression(p.current_token, condition.node,
                                     consequence.node, alt.node),
                        alt.p))))

parse_block_loop(p, brace_tok, statements) ==
    IF current_token_is(p, "RBRACE") \/ current_token_is(p, "EOF")
    THEN Ok(BlockStatement(brace_tok, statements), p)
    ELSE Bind(parse_statement(p), LAMBDA stmt :
        IF ~stmt.ok THEN Failed(stmt.p)
        ELSE parse_block_loop(next_token(stmt.p), brace_tok,
                              Append(statements, stmt.node)))

parse_block_statement(p) ==
    IF ~current_token_is(p, "LBRACE")
    THEN Failed(make_current_expect_error(p, "LBRACE"))
    ELSE parse_block_loop(next_token(p), p.current_token, <<>>)

parse_grouped_expression(p) ==
    Bind(parse_expression(next_token(p), LOWEST), LAMBDA exp :
        IF ~peek_token_is(exp.p, "RPAREN") THEN Failed(exp.p)
        ELSE IF exp.ok THEN Ok(exp.node, next_token(exp.p))
        ELSE Failed(next_token(exp.p)))

\* a left-denotation that takes every token for a binary operator
parse_expression_infix_only(p, left) == parse_infix_expression(next_token(p), left)

\* one left-denotation of the loop of parse_expression
parse_expression_infix(p, left) ==
    IF peek_token_is(p, "LPAREN") /\ left.token.type \in {"FUNCTION", "IDENT"}
    THEN parse_call_expression(next_token(p), left)
    ELSE parse_infix_expression(next_token(p), left)

\* the loop of parse_expression: the left-denotations
parse_expression_loop(p, left, precedence) ==
    IF peek_token_is(p, "SEMICOLON") \/ precedence >= peek_precedence(p)
    THEN Ok(left, p)
    ELSE IF peek_token_is_infix(p)
    THEN Bind(parse_expression_infix(p, left), LAMBDA r :
        IF ~r.ok THEN Failed(r.p)
        ELSE parse_expression_loop(r.p, r.node, precedence))
    ELSE Ok(left, p)

\* the null-denotation of parse_expression
parse_expression_prefix(p) ==
    LET t == p.current_token.type
    IN  CASE t = "IF" -> parse_if_expression(p)
          [] t = "FUNCTION" -> parse_function_literal(p)
          [] t = "IDENT" -> parse_identifier(p)
          [] t = "INT" -> parse_integer_literal(p)
          [] t \in {"TRUE", "FALSE"} -> parse_boolean_literal(p)
          [] t \in {"BANG", "MINUS"} -> parse_prefix_expression(p)
          [] t = "LPAREN" -> parse_grouped_expression(p)
          [] OTHER -> Failed(make_unknown_token_error(p))

parse_expression(p, precedence) ==
    Bind(parse_expression_prefix(p), LAMBDA left :
        IF ~left.ok THEN Failed(left.p)
        ELSE parse_expression_loop(left.p, left.node, precedence))

parse_let_statement(p) ==
    IF ~current_token_is(p, "LET")
    THEN Failed(make_current_expect_error(p, "LET"))
    ELSE IF ~peek_token_is(p, "IDENT")
    THEN Failed(make_peek_expect_error(p, "IDENT"))
    ELSE Bind(parse_identifier(p), LAMBDA let_ident :
        IF ~let_ident.ok THEN Failed(make_parse_identifier_error(let_ident.p))
        ELSE Bind(parse_identifier(next_token(p)), LAMBDA ident :
            IF ~ident.ok THEN Failed(make_parse_identifier_error(ident.p))
            ELSE IF ~peek_token_is(ident.p, "ASSIGN")
            THEN Failed(make_peek_expect_error(ident.p, "ASSIGN"))
            ELSE Bind(parse_expression(next_token(next_token(ident.p)), LOWEST),
                      LAMBDA value :
                IF ~value.ok THEN Failed(make_parse_expression_error(value.p))
                ELSE IF ~peek_token_is(value.p, "SEMICOLON")
                THEN Failed(make_peek_expect_error(value.p, "SEMICOLON"))
                ELSE Ok(LetStatement(let_ident.node.token, ident.node, value.node),
                        next_token(value.p)))))

parse_return_statement(p) ==
    IF ~current_token_is(p, "RETURN")
    THEN Failed(make_current_expect_error(p, "RETURN"))
    ELSE Bind(parse_identifier(p), LAMBDA return_ident :
        IF ~return_ident.ok THEN Failed(make_parse_identifier_error(return_ident.p))
        ELSE Bind(parse_expression(next_token(p), LOWEST), LAMBDA expression :
            IF ~expression.ok THEN Failed(make_parse_expression_error(expression.p))
            ELSE IF peek_token_is(expression.p, "SEMICOLON")
            THEN Ok(ReturnStatement(return_ident.node.token, expression.node),
                    next_token(expression.p))
            ELSE Failed(make_peek_expect_error(expression.p, "SEMICOLON"))))

\* an expression statement that does without its SEMICOLON
parse_expression_statement_lenient(p) ==
    Bind(parse_expression(p, LOWEST), LAMBDA expression :
        IF ~expression.ok THEN Failed(make_parse_expression_error(expression.p))
        ELSE IF ~peek_token_is(expression.p, "SEMICOLON")
        THEN Ok(ExpressionStatement(p.current_token, expression.node), expression.p)
        ELSE Ok(ExpressionStatement(p.current_token, expression.node),
                next_token(expression.p)))

parse_expression_statement(p) ==
    Bind(parse_expression(p, LOWEST), LAMBDA expression :
        IF ~expression.ok THEN Failed(make_parse_expression_error(expression.p))
        ELSE IF ~peek_token_is(expression.p, "SEMICOLON")
        THEN Failed(make_peek_expect_error(expression.p, "SEMICOLON"))
        ELSE Ok(ExpressionStatement(p.current_token, expression.node),
                next_token(expression.p)))

parse_statement(p) ==
    CASE current_token_is(p, "LET") -> parse_let_statement(p)
      [] current_token_is(p, "RETURN") -> parse_return_statement(p)
      [] OTHER -> parse_expression_statement(p)

\* a recovery that goes on at the token behind the failure, skipping nothing
skip_to_semicolon_nowhere(p) == Ok(None, p)

\* the recovery loop of parse_program: on to the next SEMICOLON; absent at
\* EOF or ILLEGAL
RECURSIVE skip_to_semicolon(_)
skip_to_semicolon(p) ==
    IF current_token_is(p, "SEMICOLON") THEN Ok(None, p)
    ELSE IF peek_token_is(p, "EOF") \/ peek_token_is(p, "ILLEGAL")
    THEN [ok |-> FALSE, node |-> None, p |-> make_illegal_error(next_token(p))]
    ELSE skip_to_semicolon(next_token(p))

\* a parse_program that hands the program back whatever the errors
parse_program_result_always(p, statements) == Some(statements)

\* the end of parse_program: the program only without errors
parse_program_result(p, statements) ==
    IF Len(p.errors) # 0 THEN None ELSE Some(statements)

----------------------------------------------------------------------------
(* The lexer (lexer.rs), character by character *)

Lowercase ==
    {"a", "b", "c", "d", "e", "f", "g", "h", "i", "j", "k", "l", "m",
     "n", "o", "p", "q", "r", "s", "t", "u", "v", "w", "x", "y", "z"}
Uppercase ==
    {"A", "B", "C", "D", "E", "F", "G", "H", "I", "J", "K", "L", "M",
     "N", "O", "P", "Q", "R", "S", "T", "U", "V", "W", "X", "Y", "Z"}
is_letter(ch) == ch \in Lowercase \/ ch \in Uppercase \/ ch = "_"
is_digit(ch) == IsDigitChar(ch)
is_whitespace(ch) == ch \in {" ", "\t", "\n", "\r"}

\* TokenType::lookup_ident: the keyword's kind, or IDENT
lookup_ident(ident) ==
    CASE ident = S_fn -> "FUNCTION"
      [] ident = S_let -> "LET"
      [] ident = S_if -> "IF"
      [] ident = S_else -> "ELSE"
      [] ident = S_return -> "RETURN"
      [] ident = S_true -> "TRUE"
      [] ident = S_false -> "FALSE"
      [] OTHER -> "IDENT"

\* positions count from 0 as in the source; input[i + 1] is chars().nth(i)
read_char(l) ==
    [l EXCEPT !.ch = IF l.read_position >= Len(l.input) THEN None
                     ELSE Some(l.input[l.read_position + 1]),
              !.position = l.read_position,
              !.read_position = l.read_position + 1]

LexerNew(input) ==
    read_char([input |-> input, position |-> 0, read_position |-> 0, ch |-> None])

RECURSIVE skip_whitespace(_)
skip_whitespace(l) ==
    IF IsSome(l.ch) /\ is_whitespace(Unwrap(l.ch)) THEN skip_whitespace(read_char(l))
    ELSE l

\* the loop of read_identifier; the lexer behind the last letter
RECURSIVE read_letters(_)
read_letters(l) ==
    IF IsSome(l.ch) /\ is_letter(Unwrap(l.ch)) THEN read_letters(read_char(l))
    ELSE l

\* the loop of read_number; the lexer behind the last digit
RECURSIVE read_digits(_)
read_digits(l) ==
    IF IsSome(l.ch) /\ is_digit(Unwrap(l.ch)) THEN read_digits(read_char(l))
    ELSE l

\* input[from..to], byte positions (the model's characters are one byte each)
Slice(input, from, to) == SubSeq(input, from + 1, to)

read_identifier(l) ==
    Bind(read_letters(l), LAMBDA r :
        [literal |-> Slice(l.input, l.position, r.position), l |-> r])

read_number(l) ==
    Bind(read_digits(l), LAMBDA r :
        [literal |-> Slice(l.input, l.position, r.position), l |-> r])

\* a lexer whose EOF also reads on
lex_end_reading(s) == [token |-> Token("EOF", <<>>), l |-> read_char(s)]

\* the None arm of the match of Lexer::next_token: the end of the input
lex_end(s) ==
    IF s.position = Len(s.input)
    THEN [token |-> Token("EOF", <<>>), l |-> s]
    ELSE [token |-> Token("ILLEGAL", <<>>), l |-> s]

\* the match of Lexer::next_token on the lexer s that skip_whitespace left
lex_match(s) ==
    IF IsNone(s.ch) THEN lex_end(s)
    ELSE LET c == Unwrap(s.ch)
         IN  CASE c = "=" -> [token |-> Token("ASSIGN", <<"=">>), l |-> read_char(s)]
               [] c = ";" -> [token |-> Token("SEMICOLON", <<";">>), l |-> read_char(s)]
               [] c = "(" -> [token |-> Token("LPAREN", <<"(">>), l |-> read_char(s)]
               [] c = ")" -> [token |-> Token("RPAREN", <<")">>), l |-> read_char(s)]
               [] c = "," -> [token |-> Token("COMMA", <<",">>), l |-> read_char(s)]
               [] c = "+" -> [token |-> Token("PLUS", <<"+">>), l |-> read_char(s)]
               [] c = "{" -> [token |-> Token("LBRACE", <<"{">>), l |-> read_char(s)]
               [] c = "}" -> [token |-> Token("RBRACE", <<"}">>), l |-> read_char(s)]
               [] OTHER ->
                    IF is_letter(c)
                    THEN Bind(read_identifier(s), LAMBDA ident :
                             [token |-> Token(lookup_ident(ident.literal), ident.literal),
                              l |-> ident.l])
                    ELSE IF is_digit(c)
                    THEN Bind(read_number(s), LAMBDA number :
                             [token |-> Token("INT", number.literal), l |-> number.l])
                    ELSE [token |-> Token("ILLEGAL", <<c>>), l |-> s]

\* Lexer::next_token
lex_next_token(l) == lex_match(skip_whitespace(l))

\* The tokens the parser gets to see of lexer l: up to the end of the input,
\* or up to the first ILLEGAL, which the lexer repeats for ever.
RECURSIVE tokens_from(_)
tokens_from(l) ==
    Bind(lex_next_token(l), LAMBDA r :
        IF r.token.type = "EOF" THEN <<>>
        ELSE IF r.token.type = "ILLEGAL" THEN <<r.token>>
        ELSE <<r.token>> \o tokens_from(r.l))

\* Lexer::new(input), as the parser uses it
LexerOf(input) == Lexer(tokens_from(LexerNew(input)))

----------------------------------------------------------------------------
(* The trees the evaluator is run on *)

T_int(n) == Token("INT", FormatNat(n))
T_bool(b) == Token(IF b THEN "TRUE" ELSE "FALSE", FormatBool(b))
T_op(type, literal) == Token(type, literal)
T_if == Token("IF", S_if)
T_return == Token("RETURN", S_return)
T_lbrace == Token("LBRACE", <<"{">>)

IntLit(n) == IntegerLiteral(T_int(n), n)
BoolLit(b) == BooleanLiteral(T_bool(b), b)
Bang(e) == PrefixExpression(T_op("BANG", <<"!">>), <<"!">>, e)
Minus(e) == PrefixExpression(T_op("MINUS", <<"-">>), <<"-">>, e)
Plus(l, r) == InfixExpression(T_op("PLUS", <<"+">>), <<"+">>, l, r)
Eq(l, r) == InfixExpression(T_op("EQ", <<"=", "=">>), <<"=", "=">>, l, r)
Infix(tok, l, r) == InfixExpression(tok, tok.literal, l, r)
IntNode(v) == IntegerLiteral(Token("INT", FormatI64(v)), v)
Block(ss) == BlockStatement(T_lbrace, ss)
If(c, t, e) == IfExpression(T_if, c, t, e)
ExprStmt(e) == ExpressionStatement(e.token, e)
Return(e) == ReturnStatement(T_return, e)

IntLits == {IntLit(n) : n \in 1..MaxLit}
Leaves == IntLits \cup {BoolLit(TRUE), BoolLit(FALSE)}
\* -true evaluates to Null
NullExp == Minus(BoolLit(TRUE))
\* if (true) { return 1; }
IfReturn == If(BoolLit(TRUE), Block(<<Return(IntLit(1))>>), None)

InnerStmts ==
    {ExprStmt(e) : e \in IntLits} \cup {Return(e) : e \in IntLits}
    \cup {ExprStmt(IfReturn)}
Blocks == {Block(ss) : ss \in SeqsUpTo(InnerStmts, MaxBlockLen)}
Conds == {BoolLit(TRUE), BoolLit(FALSE), IntLit(1), NullExp}
Alts == {None} \cup {Some(Block(<<s>>)) : s \in InnerStmts}
Ifs == {If(c, t, e) : c \in Conds, t \in Blocks, e \in Alts}
\* an if-expression whose then-block runs, used as an operand
OperandIfs == {If(BoolLit(TRUE), t, None) : t \in Blocks}
Nested ==
    UNION {{Bang(e), Minus(e), Plus(e, IntLit(1)), Eq(IntLit(1), e),
            If(e, Block(<<ExprStmt(IntLit(1))>>), Some(Block(<<ExprStmt(IntLit(2))>>)))}
           : e \in OperandIfs}
Simple ==
    Leaves \cup {Bang(e) : e \in Leaves} \cup {Minus(e) : e \in Leaves}
    \cup {NullExp, Bang(NullExp), Bang(Bang(NullExp)), Minus(NullExp)}
Exprs == Simple \cup Ifs \cup Nested
RichStmts == {ExprStmt(e) : e \in Exprs} \cup {Return(e) : e \in Exprs}

\* the statements of the longer top-level programs
TopStmts ==
    {ExprStmt(e) : e \in IntLits} \cup {Return(e) : e \in IntLits}
    \cup {ExprStmt(IfReturn),
          ExprStmt(If(BoolLit(TRUE), Block(<<Return(IntLit(1)), ExprStmt(IntLit(2))>>), None))}

\* 5; return 5; 5;
Scenario9 == <<ExprStmt(IntLit(5)), Return(IntLit(5)), ExprStmt(IntLit(5))>>

\* the operands and operators of the arithmetic: the ends of the i64 range,
\* the values around zero, both Booleans and Null
ArithValues == {I64_MIN, -1, 0, 1, 2, I64_MAX}
ArithOperands ==
    {IntNode(v) : v \in ArithValues} \cup {BoolLit(TRUE), BoolLit(FALSE), NullExp}
\* `(` is the operator the parser gives to `1(2`
ArithOperators ==
    {T_op("PLUS", <<"+">>), T_op("MINUS", <<"-">>), T_op("ASTERISK", <<"*">>),
     T_op("SLASH", <<"/">>), T_op("LT", <<"<">>), T_op("GT", <<">">>),
     T_op("EQ", <<"=", "=">>), T_op("NEQ", <<"!", "=">>), T_op("LPAREN", <<"(">>)}
\* (-MAX - 1) / -1, as a text can say it
MinByMinusOne ==
    Infix(T_op("SLASH", <<"/">>),
          Infix(T_op("MINUS", <<"-">>), Minus(IntNode(I64_MAX)), IntNode(1)),
          Minus(IntNode(1)))
ArithExprs ==
    {Infix(op, l, r) : op \in ArithOperators, l \in ArithOperands, r \in ArithOperands}
    \cup {Minus(IntNode(v)) : v \in ArithValues}
    \cup {MinByMinusOne}
ArithPrograms == {<<ExprStmt(e)>> : e \in ArithExprs}

Programs ==
    {<<s>> : s \in RichStmts} \cup SeqsUpTo(TopStmts, MaxProgLen) \cup {Scenario9}
    \cup ArithPrograms
\* the statement lists of the blocks eval_block_statement is run on
BlockBodies ==
    SeqsUpTo(InnerStmts, MaxBlockLen + 1)
    \cup {<<ExprStmt(e)>> : e \in Ifs} \cup {<<ExprStmt(e), ExprStmt(IntLit(1))>> : e \in Ifs}

----------------------------------------------------------------------------
(* The evaluator as a state machine: the two for loops, one statement a step *)

LexerIdle ==
    /\ lex = [idle |-> TRUE]
    /\ lex_tok = None
    /\ lex_eofs = 0

NoText == text = None /\ tree = None

ParserIdle ==
    /\ parser = [idle |-> TRUE]
    /\ program = <<>>
    /\ parsed = None
    /\ ppc = "idle"

Init ==
    /\ \/ mode = "program" /\ stmts \in Programs
       \/ mode = "block" /\ stmts \in BlockBodies
    /\ idx = 0
    /\ result = NULL
    /\ pc = "loop"
    /\ overflow_checks \in BOOLEAN
    /\ ParserIdle
    /\ LexerIdle /\ NoText

\* one turn of the for loop of eval_statements
EvalStatementsStep ==
    /\ mode = "program" /\ pc = "loop" /\ idx < Len(stmts)
    /\ LET r == eval_statement(stmts[idx + 1])
       IN  /\ result' = r
           /\ pc' = IF IsPanic(r) THEN "panicked"
                    ELSE IF eval_statements_breaks(r) THEN "break"
                    ELSE "loop"
    /\ idx' = idx + 1
    /\ UNCHANGED <<mode, stmts, overflow_checks, pvars, lvars>>

\* eval_statements, and with it eval_program, returns `result`
EvalStatementsReturn ==
    /\ mode = "program"
    /\ pc = "break" \/ (pc = "loop" /\ idx = Len(stmts))
    /\ pc' = "returned"
    /\ UNCHANGED <<mode, stmts, idx, result, overflow_checks, pvars, lvars>>

\* one turn of the for loop of eval_block_statement
EvalBlockStep ==
    /\ mode = "block" /\ pc = "loop" /\ idx < Len(stmts)
    /\ LET r == eval_statement(stmts[idx + 1])
       IN  /\ result' = r
           /\ pc' = IF IsPanic(r) THEN "panicked" ELSE "loop"
    /\ idx' = idx + 1
    /\ UNCHANGED <<mode, stmts, overflow_checks, pvars, lvars>>

\* eval_block_statement returns `result`
EvalBlockReturn ==
    /\ mode = "block" /\ pc = "loop" /\ idx = Len(stmts)
    /\ pc' = "returned"
    /\ UNCHANGED <<mode, stmts, idx, result, overflow_checks, pvars, lvars>>

Next ==
    \/ EvalStatementsStep
    \/ EvalStatementsReturn
    \/ EvalBlockStep
    \/ EvalBlockReturn

Spec == Init /\ [][Next]_vars


----------------------------------------------------------------------------
(* The inputs the parser is run on, as the tokens they lex to *)

t_a == Token("IDENT", <<"a">>)
t_b == Token("IDENT", <<"b">>)
t_c == Token("IDENT", <<"c">>)
t_1 == Token("INT", <<"1">>)
t_semicolon == Token("SEMICOLON", <<";">>)
t_lparen == Token("LPAREN", <<"(">>)
t_rparen == Token("RPAREN", <<")">>)
t_lbrace == Token("LBRACE", <<"{">>)
t_rbrace == Token("RBRACE", <<"}">>)
t_comma == Token("COMMA", <<",">>)
t_assign == Token("ASSIGN", <<"=">>)
t_plus == Token("PLUS", <<"+">>)
t_minus == Token("MINUS", <<"-">>)
t_asterisk == Token("ASTERISK", <<"*">>)
t_slash == Token("SLASH", <<"/">>)
t_lt == Token("LT", <<"<">>)
t_gt == Token("GT", <<">">>)
t_eq == Token("EQ", <<"=", "=">>)
t_neq == Token("NEQ", <<"!", "=">>)
t_bang == Token("BANG", <<"!">>)
t_let == Token("LET", S_let)
t_return == Token("RETURN", S_return)
t_if == Token("IF", S_if)
t_else == Token("ELSE", S_else)
t_fn == Token("FUNCTION", S_fn)
t_true == Token("TRUE", S_true)
t_illegal == Token("ILLEGAL", <<"@">>)
t_add == Token("IDENT", <<"a", "d", "d">>)
t_d == Token("IDENT", <<"d">>)

\* nodes as the parser builds them from these tokens
Ident(name) == Identifier(Token("IDENT", name), name)
NegLit(n) == IntegerLiteral(Token("INT", FormatI64(-n)), -n)
Call(f, args) == CallExpression(t_lparen, f, args)
Let(name, v) == LetStatement(t_let, Ident(name), v)

\* every input of at most MaxToks tokens over this alphabet
Alphabet ==
    {t_a, t_1, t_plus, t_bang, t_semicolon, t_lparen, t_rparen, t_lbrace, t_rbrace,
     t_comma, t_assign, t_let, t_return, t_if, t_else, t_fn, t_illegal}
ShortInputs == SeqsUpTo(Alphabet, MaxToks)

\* well-formed sentences
Sentences ==
    { <<t_a, t_plus, t_1, t_semicolon>>,
      <<t_let, t_a, t_assign, t_1, t_semicolon>>,
      <<t_return, t_a, t_semicolon>>,
      <<t_bang, t_minus, t_a, t_semicolon>>,
      <<t_lparen, t_a, t_plus, t_1, t_rparen, t_asterisk, t_b, t_semicolon>>,
      <<t_a, t_lparen, t_1, t_comma, t_b, t_rparen, t_semicolon>>,
      <<t_if, t_lparen, t_a, t_rparen, t_lbrace, t_1, t_semicolon, t_rbrace,
        t_semicolon, t_semicolon>>,
      <<t_if, t_lparen, t_a, t_rparen, t_lbrace, t_return, t_1, t_semicolon, t_rbrace,
        t_else, t_lbrace, t_a, t_semicolon, t_rbrace, t_semicolon, t_semicolon>>,
      <<t_fn, t_lparen, t_a, t_comma, t_b, t_rparen, t_lbrace, t_a, t_semicolon,
        t_rbrace, t_semicolon>>,
      <<t_fn, t_lparen, t_rparen, t_lbrace, t_rbrace, t_lparen, t_1, t_rparen,
        t_semicolon>> }

\* the tokens a damaged sentence gets in place of one of its own
Replacements ==
    {t_a, t_1, t_plus, t_semicolon, t_lparen, t_rparen, t_lbrace, t_rbrace, t_comma,
     t_else, t_illegal}

Without(w, i) == SubSeq(w, 1, i - 1) \o SubSeq(w, i + 1, Len(w))
\* a sentence, the sentence less one token, the sentence with one token replaced
Damaged(w) ==
    {w} \cup {Without(w, i) : i \in 1..Len(w)}
    \cup {[w EXCEPT ![i] = t] : i \in 1..Len(w), t \in Replacements}
DamagedInputs == UNION {Damaged(w) : w \in Sentences}
\* a damaged statement with a statement after it
FollowedInputs ==
    {d \o <<t_1, t_semicolon>> :
        d \in UNION {Damaged(w) : w \in {x \in Sentences : Len(x) <= 5}}}

\* a op1 b op2 c ;
BinaryOperators == {t_eq, t_neq, t_lt, t_gt, t_plus, t_minus, t_asterisk, t_slash}
Operands == {t_a, t_1, t_true}
PrecedenceInputs ==
    {<<x, op1, t_b, op2, t_c, t_semicolon>> :
        x \in Operands, op1 \in BinaryOperators, op2 \in BinaryOperators}

\* an if-expression or a function literal with the end of the input right
\* behind its closing brace
IfHeads == {<<t_if, t_lparen, c, t_rparen>> : c \in {t_a, t_true}}
BracedStatements == {<<t_lbrace, x, t_semicolon, t_rbrace>> : x \in {t_a, t_1}}
FnHeads ==
    {<<t_fn, t_lparen>> \o ps \o <<t_rparen>> :
        ps \in {<<>>, <<t_a>>, <<t_a, t_comma, t_b>>}}
FnBodies ==
    {<<t_lbrace>> \o ss \o <<t_rbrace>> :
        ss \in {<<>>, <<t_a, t_semicolon>>, <<t_a, t_plus, t_b, t_semicolon>>}}
IfInputs == {h \o b : h \in IfHeads, b \in BracedStatements}
IfElseInputs ==
    {h \o b \o <<t_else>> \o e : h \in IfHeads, b \in BracedStatements,
                                  e \in BracedStatements}
FnInputs == {h \o b : h \in FnHeads, b \in FnBodies}
BraceEndedInputs == IfInputs \cup IfElseInputs \cup FnInputs

\* x ( y ;  and  let-shaped statements
ParenInputs ==
    {<<x, t_lparen, y, t_semicolon>> : x \in {t_a, t_1, t_true}, y \in {t_a, t_1}}
LetInputs ==
    {<<t_let, x, y, z, t_semicolon>> :
        x \in {t_a, t_1, t_let}, y \in {t_assign, t_plus}, z \in {t_b, t_1, t_semicolon}}

\* if-sentences whose condition is and is not in parentheses
IfConditions ==
    {<<t_a>>, <<t_a, t_lparen, t_b, t_rparen>>, <<t_a, t_lparen, t_rparen>>,
     <<t_lparen, t_a, t_rparen>>, <<t_lparen, t_a, t_lparen, t_b, t_rparen, t_rparen>>}
IfConditionInputs ==
    {<<t_if>> \o c \o b \o tail :
        c \in IfConditions,
        b \in {<<t_lbrace, t_a, t_semicolon, t_rbrace>>, <<t_lbrace, t_rbrace>>},
        tail \in {<<>>, <<t_semicolon>>, <<t_semicolon, t_semicolon>>}}

\* fn ( <parameters> ) { } ;  with parameter positions holding names and
\* other tokens
ParameterTokens == {t_a, t_b, t_1, t_true, t_comma, t_let}
ParameterLists ==
    {<<>>} \cup {<<x>> : x \in ParameterTokens}
    \cup {<<x, t_comma>> : x \in ParameterTokens}
    \cup {<<x, t_comma, y>> : x \in ParameterTokens, y \in ParameterTokens}
FnParameterInputs ==
    {<<t_fn, t_lparen>> \o ps \o <<t_rparen, t_lbrace, t_rbrace, t_semicolon>> :
        ps \in ParameterLists}

\* Sentences with calls, each with the expression it is to be parsed to:
\* [tokens, node].  Arguments first.
Case(tokens, node) == [tokens |-> tokens, node |-> node]
CallArguments ==
    {Case(<<t_a>>, Ident(<<"a">>)),
     Case(<<t_1>>, IntegerLiteral(t_1, 1)),
     Case(<<t_b, t_asterisk, t_c>>, Infix(t_asterisk, Ident(<<"b">>), Ident(<<"c">>))),
     Case(<<t_a, t_plus, t_1>>, Infix(t_plus, Ident(<<"a">>), IntegerLiteral(t_1, 1))),
     Case(<<t_b, t_lparen, t_c, t_rparen>>, Call(Ident(<<"b">>), <<Ident(<<"c">>)>>))}
RECURSIVE JoinTokens(_)
JoinTokens(cases) ==
    IF cases = <<>> THEN <<>>
    ELSE IF Len(cases) = 1 THEN cases[1].tokens
    ELSE cases[1].tokens \o <<t_comma>> \o JoinTokens(Tail(cases))
CallOf(f, arguments) ==
    Case(f.tokens \o <<t_lparen>> \o JoinTokens(arguments) \o <<t_rparen>>,
         Call(f.node, [i \in DOMAIN arguments |-> arguments[i].node]))
\* fn ( a ) { a ; }
FnCase ==
    Case(<<t_fn, t_lparen, t_a, t_rparen, t_lbrace, t_a, t_semicolon, t_rbrace>>,
         FunctionLiteral(t_fn, <<Ident(<<"a">>)>>,
                         Block(<<ExpressionStatement(t_a, Ident(<<"a">>))>>)))
Callees == {Case(<<t_add>>, Ident(<<"a", "d", "d">>)), FnCase}
Calls ==
    {CallOf(f, arguments) : f \in Callees, arguments \in SeqsUpTo(CallArguments, MaxArgs)}
AddOfB == CallOf(Case(<<t_add>>, Ident(<<"a", "d", "d">>)), <<Case(<<t_b>>, Ident(<<"b">>))>>)
CallOperators ==
    {t_plus, t_minus, t_asterisk, t_slash, t_lt, t_gt, t_eq, t_neq}
\* a + add(b * c) + d
Scenario27 ==
    Case(<<t_a, t_plus, t_add, t_lparen, t_b, t_asterisk, t_c, t_rparen, t_plus, t_d>>,
         Infix(t_plus,
               Infix(t_plus, Ident(<<"a">>),
                     Call(Ident(<<"a", "d", "d">>),
                          <<Infix(t_asterisk, Ident(<<"b">>), Ident(<<"c">>))>>)),
               Ident(<<"d">>)))
CallCases ==
    Calls
    \cup {Case(<<op>> \o AddOfB.tokens, PrefixExpression(op, op.literal, AddOfB.node))
             : op \in {t_bang, t_minus}}
    \cup {Case(<<t_a, op>> \o AddOfB.tokens, Infix(op, Ident(<<"a">>), AddOfB.node))
             : op \in CallOperators}
    \cup {Case(AddOfB.tokens \o <<op, t_a>>, Infix(op, AddOfB.node, Ident(<<"a">>)))
             : op \in CallOperators}
    \cup {Scenario27}
CallInputs == {c.tokens \o <<t_semicolon>> : c \in CallCases}

\* parentheses that do not match, in sentences the parser may take
UnbalancedInputs ==
    {<<t_lparen, t_1, t_lparen, t_a, t_rparen, t_semicolon>>,
     <<t_lparen, t_a, t_rparen, t_rparen, t_semicolon>>,
     <<t_lparen, t_lparen, t_a, t_rparen, t_semicolon>>,
     <<t_rparen, t_a, t_lparen, t_semicolon>>,
     <<t_a, t_lparen, t_semicolon>>,
     <<t_1, t_plus, t_lparen, t_a, t_semicolon>>}

\* if ( a ) { 1 ; } x ;  and the same with an else-block: a token behind
\* the closing brace
AfterBraceTokens == {t_b, t_1, t_true, t_rparen, t_plus, t_semicolon}
AfterIfInputs ==
    {<<t_if, t_lparen, t_a, t_rparen, t_lbrace, t_1, t_semicolon, t_rbrace, x,
       t_semicolon>> : x \in AfterBraceTokens}
    \cup {<<t_if, t_lparen, t_a, t_rparen, t_lbrace, t_1, t_semicolon, t_rbrace,
            t_else, t_lbrace, t_b, t_semicolon, t_rbrace, x, t_semicolon>> :
              x \in AfterBraceTokens}

ParserInputs ==
    ShortInputs \cup DamagedInputs \cup FollowedInputs \cup PrecedenceInputs
    \cup BraceEndedInputs \cup ParenInputs \cup LetInputs \cup IfConditionInputs
    \cup FnParameterInputs \cup CallInputs \cup UnbalancedInputs \cup AfterIfInputs

----------------------------------------------------------------------------
(* parse_program as a state machine: one turn of its loop a step *)

EvaluatorIdle ==
    /\ mode = "idle"
    /\ stmts = <<>>
    /\ idx = 0
    /\ result = NULL
    /\ pc = "idle"
    /\ overflow_checks = FALSE

ParseInit ==
    /\ \E tokens \in ParserInputs : parser = ParserNew(Lexer(tokens))
    /\ program = <<>>
    /\ parsed = None
    /\ ppc = "loop"
    /\ EvaluatorIdle
    /\ LexerIdle /\ NoText

\* current_token is EOF: the loop ends
ParseEof ==
    /\ ppc = "loop" /\ current_token_is(parser, "EOF")
    /\ ppc' = "done"
    /\ parsed' = parse_program_result(parser, program)
    /\ UNCHANGED <<parser, program, evars, lvars>>

\* a loop that records the ILLEGAL token and goes on to the next token
ParseIllegalGoesOn ==
    /\ ppc = "loop" /\ current_token_is(parser, "ILLEGAL")
    /\ parser' = next_token(make_illegal_error(parser))
    /\ UNCHANGED <<program, parsed, ppc, evars, lvars>>

\* current_token is ILLEGAL: one error, and the loop ends
ParseIllegal ==
    /\ ppc = "loop" /\ current_token_is(parser, "ILLEGAL")
    /\ parser' = make_illegal_error(parser)
    /\ ppc' = "done"
    /\ parsed' = parse_program_result(parser', program)
    /\ UNCHANGED <<program, evars, lvars>>

\* a statement is parsed and pushed
ParseStatementOk ==
    /\ ppc = "loop"
    /\ ~current_token_is(parser, "EOF") /\ ~current_token_is(parser, "ILLEGAL")
    /\ \E stmt_opt \in {parse_statement(parser)} :
           /\ stmt_opt.ok
           /\ program' = Append(program, stmt_opt.node)
           /\ parser' = next_token(stmt_opt.p)
    /\ UNCHANGED <<parsed, ppc, evars, lvars>>

\* no statement: an error, then on to the next SEMICOLON, or None at EOF / ILLEGAL
ParseStatementFailed ==
    /\ ppc = "loop"
    /\ ~current_token_is(parser, "EOF") /\ ~current_token_is(parser, "ILLEGAL")
    /\ \E stmt_opt \in {parse_statement(parser)} :
           /\ ~stmt_opt.ok
           /\ \E skipped \in {skip_to_semicolon(make_parse_statement_error(stmt_opt.p))} :
                  IF skipped.ok
                  THEN parser' = next_token(skipped.p) /\ UNCHANGED <<parsed, ppc>>
                  ELSE parser' = skipped.p /\ parsed' = None /\ ppc' = "done"
    /\ UNCHANGED <<program, evars, lvars>>

ParseNext ==
    \/ ParseEof
    \/ ParseIllegal
    \/ ParseStatementOk
    \/ ParseStatementFailed

ParseSpec == ParseInit /\ [][ParseNext]_vars

\* the loop of parse_program is not left standing: it runs on until it returns
ParseLiveSpec == ParseInit /\ [][ParseNext]_vars /\ WF_vars(ParseNext)

----------------------------------------------------------------------------
(* The evaluator's claims *)

IsEnvelope(v) == v.type = "RETURN_VALUE"
\* the positions of ss whose statement evaluates to an envelope
EnvelopesIn(ss) == {j \in 1..Len(ss) : IsEnvelope(eval_statement(ss[j]))}
FirstOf(S) == CHOOSE j \in S : \A k \in S : j <= k
\* what a loop that stops at the first envelope returns
StopsAtFirstEnvelope(ss, taken, res) ==
    IF EnvelopesIn(ss) # {}
    THEN taken = FirstOf(EnvelopesIn(ss)) /\ res = eval_statement(ss[taken])
    ELSE /\ taken = Len(ss)
         /\ res = IF ss = <<>> THEN NULL ELSE eval_statement(ss[Len(ss)])

\* C1: when eval_block_statement returns, the block's value is the first
\* envelope one of its statements produced and no later statement was taken;
\* without an envelope it is the value of the last statement.
C1_BlockStopsAtFirstReturn ==
    (mode = "block" /\ pc = "returned") => StopsAtFirstEnvelope(stmts, idx, result)

\* C2: eval_program takes the top-level statements in order, never takes a
\* statement after one that produced an envelope, and returns that envelope
\* (for a return statement: its operand's value, wrapped); without an envelope
\* it returns the last statement's value, Null for the empty program.
C2_ProgramStopsAtFirstReturn ==
    mode = "program" =>
        /\ \A j \in 1..(idx - 1) : ~IsEnvelope(eval_statement(stmts[j]))
        /\ (idx > 0 /\ pc # "panicked") => result = eval_statement(stmts[idx])
        /\ pc = "returned" =>
              /\ StopsAtFirstEnvelope(stmts, idx, result)
              /\ (IsEnvelope(result) /\ stmts[idx].kind = "ReturnStatement") =>
                    result = ReturnValue(eval_expression(stmts[idx].return_value))

\* eval_program stopped at a return with statements left over
C2_Witness ==
    /\ mode = "program" /\ pc = "returned"
    /\ idx < Len(stmts) /\ idx > 1
    /\ stmts[idx].kind = "ReturnStatement"

\* C3 as claimed: what eval_program returns is never an envelope.
C3_NeverEnvelope ==
    (mode = "program" /\ pc = "returned") => ~IsEnvelope(result)

\* C3 as amended: what eval_program returns is an envelope exactly when a
\* top-level statement it took produced one; the envelope comes back as it
\* is, so `5; return 5; 5;` yields ReturnValue(Integer(5)).
C3_EnvelopeSurfaces ==
    (mode = "program" /\ pc = "returned") =>
        /\ IsEnvelope(result) <=> EnvelopesIn(stmts) # {}
        /\ stmts = Scenario9 => result = ReturnValue(Integer(5))

\* eval_program returned from `5; return 5; 5;`
C3_Witness ==
    mode = "program" /\ pc = "returned" /\ stmts = Scenario9

RECURSIVE CleanStatement(_)
RECURSIVE CleanExpression(_)
\* no operand, condition or return operand evaluated inside the tree is an envelope
CleanExpression(e) ==
    CASE e.kind = "PrefixExpression" ->
            CleanExpression(e.right_exp) /\ ~IsEnvelope(eval_expression(e.right_exp))
      [] e.kind = "InfixExpression" ->
            /\ CleanExpression(e.left_exp) /\ ~IsEnvelope(eval_expression(e.left_exp))
            /\ CleanExpression(e.right_exp) /\ ~IsEnvelope(eval_expression(e.right_exp))
      [] e.kind = "IfExpression" ->
            /\ CleanExpression(e.condition)
            /\ ~IsEnvelope(eval_expression(e.condition))
            /\ IF is_truthy(eval_expression(e.condition))
               THEN CleanStatement(e.consequence)
               ELSE IsSome(e.alternative) => CleanStatement(Unwrap(e.alternative))
      [] OTHER -> TRUE
CleanStatement(s) ==
    CASE s.kind = "ExpressionStatement" -> CleanExpression(s.expression)
      [] s.kind = "ReturnStatement" ->
            /\ CleanExpression(s.return_value)
            /\ ~IsEnvelope(eval_expression(s.return_value))
      [] s.kind = "BlockStatement" ->
            \A i \in 1..Len(s.statements) : CleanStatement(s.statements[i])
      [] OTHER -> TRUE

\* C4: in the statements taken so far no operand of a prefix or infix
\* expression, no if-condition and no return operand evaluated to an
\* envelope, and the result is not an envelope around an envelope.
C4_NoEnvelopeInside ==
    /\ \A j \in 1..idx : CleanStatement(stmts[j])
    /\ IsEnvelope(result) => ~IsEnvelope(result.value)

\* truthiness as the specification has it
SpecTruthy(v) ==
    CASE v.type = "NULL" -> FALSE
      [] v.type = "BOOLEAN" -> v.bool
      [] OTHER -> TRUE

\* C5: a program of one if-expression statement yields its then-block when
\* the condition's value is truthy (Null falsy, Boolean(v) as v, the rest
\* truthy), else its else-block if there is one, else Null.
C5_IfFollowsTruthiness ==
    (/\ mode = "program" /\ pc = "returned" /\ Len(stmts) = 1
     /\ stmts[1].kind = "ExpressionStatement"
     /\ stmts[1].expression.kind = "IfExpression") =>
        LET e == stmts[1].expression
        IN  result =
                IF SpecTruthy(eval_expression(e.condition))
                THEN eval_statement(e.consequence)
                ELSE IF IsSome(e.alternative)
                THEN eval_statement(Unwrap(e.alternative))
                ELSE NULL

\* `!` as the specification has it
SpecBang(v) ==
    CASE v.type = "BOOLEAN" -> Boolean(~v.bool)
      [] v.type = "INTEGER" -> Boolean(FALSE)
      [] v.type = "NULL" -> Boolean(TRUE)
      [] OTHER -> BOOLEAN_FALSE

\* C6: a program of one `!` expression statement yields false for true, true
\* for false, false for any Integer and true for Null.
C6_BangTable ==
    (/\ mode = "program" /\ pc = "returned" /\ Len(stmts) = 1
     /\ stmts[1].kind = "ExpressionStatement"
     /\ stmts[1].expression.kind = "PrefixExpression"
     /\ stmts[1].expression.operator = <<"!">>) =>
        result = SpecBang(eval_expression(stmts[1].expression.right_exp))

----------------------------------------------------------------------------
(* The lexer, called until it has answered EOF MaxEofs times *)

\* "a" for the letters, "1" for the digits, "@" for a character the language
\* has no use for; the others stand for themselves
LexAlphabet == {"a", "1", " ", "=", "!", "+", "-", "<", ";", "@"}
LexSamples ==
    { <<"!", "-", "/", "*", "5", ";">>,
      <<"l", "e", "t", " ", "x", " ", "=", " ", "5", ";">>,
      <<"1", "0", " ", "=", "=", " ", "1", "0", ";">>,
      <<"1", "0", " ", "!", "=", " ", "9", ";">>,
      <<"5", " ", "<", " ", "1", "0", " ", ">", " ", "5", ";">>,
      <<"f", "n", "(", "x", ",", " ", "y", ")", " ", "{", "}", "\n">> }
LexInputs == SeqsUpTo(LexAlphabet, MaxChars) \cup LexSamples

LexInit ==
    /\ \E input \in LexInputs : lex = LexerNew(input)
    /\ lex_tok = None
    /\ lex_eofs = 0
    /\ NoText
    /\ ParserIdle
    /\ EvaluatorIdle

\* one call of Lexer::next_token
LexNextToken ==
    /\ lex_eofs < MaxEofs
    /\ \E r \in {lex_next_token(lex)} :
           /\ lex' = r.l
           /\ lex_tok' = Some(r.token)
           /\ lex_eofs' = IF r.token.type = "EOF" THEN lex_eofs + 1 ELSE lex_eofs
    /\ UNCHANGED <<text, tree, pvars, evars>>

LexNext == LexNextToken

\* the caller goes on calling
LexSpec == LexInit /\ [][LexNext]_vars /\ WF_vars(LexNext)

----------------------------------------------------------------------------
(* Claims about the lexer, checked under LexSpec *)

EofReturned == lex_tok = Some(Token("EOF", <<>>))

\* C11: for every input, calling next_token again and again returns EOF
\* after finitely many calls, and EOF is not returned before the end of the
\* input has been reached.
C11_LexerTotality ==
    /\ <>EofReturned
    /\ [](EofReturned => lex.position >= Len(lex.input))

\* C12: once next_token has returned EOF, every later call returns EOF with
\* an empty literal and leaves the lexer as it is, for the empty input too.
C12_EofIsFinal ==
    [][EofReturned => (lex_tok' = Some(Token("EOF", <<>>)) /\ lex' = lex)]_vars

\* a non-empty input has been read to its end and EOF has been returned twice
C12_Witness ==
    /\ lex_eofs >= 2 /\ EofReturned
    /\ Len(lex.input) >= 2 /\ lex.position = Len(lex.input)

\* the character next_token starts its match on, and the one behind it
LexChar(l) == skip_whitespace(l).ch
LexPeekChar(l) ==
    LET s == skip_whitespace(l)
    IN  IF s.read_position < Len(s.input) THEN Some(s.input[s.read_position + 1])
        ELSE None

\* the token the claim gives an operator character c that b follows
SpecOperatorToken(c, b) ==
    CASE c = "=" /\ b = Some("=") -> Token("EQ", <<"=", "=">>)
      [] c = "=" /\ b # Some("=") -> Token("ASSIGN", <<"=">>)
      [] c = "!" /\ b = Some("=") -> Token("NEQ", <<"!", "=">>)
      [] c = "!" /\ b # Some("=") -> Token("BANG", <<"!">>)
      [] c = "<" -> Token("LT", <<"<">>)
      [] c = ">" -> Token("GT", <<">">>)
      [] c = "+" -> Token("PLUS", <<"+">>)
      [] c = "-" -> Token("MINUS", <<"-">>)
      [] c = "*" -> Token("ASTERISK", <<"*">>)
      [] c = "/" -> Token("SLASH", <<"/">>)

\* C13: next_token maps an operator character to its kind: == and != are
\* one EQ / NEQ token, a single = is ASSIGN and a single ! is BANG, and
\* < > + - * / are LT GT PLUS MINUS ASTERISK SLASH.
C13_OperatorTokens ==
    [][\A c \in {"=", "!", "<", ">", "+", "-", "*", "/"} :
          LexChar(lex) = Some(c) =>
              lex_tok' = Some(SpecOperatorToken(c, LexPeekChar(lex)))]_vars

----------------------------------------------------------------------------
(* Claims about the parser, checked under ParseSpec *)

\* the input of the run, as the lexer hands it over
Tokens == parser.lexer.tokens
HasIllegal == \E i \in DOMAIN Tokens : Tokens[i].type = "ILLEGAL"
HasElse == \E i \in DOMAIN Tokens : Tokens[i].type = "ELSE"

\* a token stream up to its end: EOF excluded, the first ILLEGAL included
RECURSIVE Cut(_)
Cut(s) ==
    IF s = <<>> THEN <<>>
    ELSE IF Head(s).type = "EOF" THEN <<>>
    ELSE IF Head(s).type = "ILLEGAL" THEN <<Head(s)>>
    ELSE <<Head(s)>> \o Cut(Tail(s))

\* the tokens parser p has not gone past: its two and the lexer's rest
Unread(p) ==
    Cut(<<p.current_token, p.peek_token>>
        \o SubSeq(p.lexer.tokens, p.lexer.position, Len(p.lexer.tokens)))

HasSemicolon(s) == \E i \in DOMAIN s : s[i].type = "SEMICOLON"
FirstSemicolon(s) ==
    CHOOSE i \in DOMAIN s :
        s[i].type = "SEMICOLON" /\ \A j \in 1..(i - 1) : s[j].type # "SEMICOLON"
AfterFirstSemicolon(s) == SubSeq(s, FirstSemicolon(s) + 1, Len(s))

IsExpect(e) == e.msg \in {"peek_expect", "current_expect"}
IllegalErrors(errors) == {i \in DOMAIN errors : errors[i].msg = "illegal"}
AtStatement == ppc = "loop" /\ parser.current_token.type \notin {"EOF", "ILLEGAL"}

\* C7: parse_program returns a Program exactly when the error list is empty
\* at the end of parsing and absence exactly when a diagnostic has been
\* recorded; and whenever a sub-parser (statement, expression, block,
\* parameter list, else block) has failed, the list holds a diagnostic.
C7_ProgramIffNoErrors ==
    /\ ppc = "done" =>
        /\ IsSome(parsed) <=> Len(parser.errors) = 0
        /\ IsNone(parsed) <=> Len(parser.errors) >= 1
        /\ IsSome(parsed) => Unwrap(parsed) = program
    /\ parser.failed => Len(parser.errors) >= 1

\* parsing has ended in absence although statements had been assembled
C7_Witness ==
    /\ ppc = "done" /\ IsNone(parsed) /\ parser.failed
    /\ Len(program) >= 1 /\ Len(parser.errors) >= 1

\* the statement at the current token fails, and what its parser recorded
\* last is an expected-token mismatch
C8_Mismatch(r) ==
    /\ AtStatement
    /\ ~r.ok
    /\ Len(r.p.errors) > Len(parser.errors)
    /\ IsExpect(r.p.errors[Len(r.p.errors)])

\* after the mismatch: the statement is dropped, and parsing goes on behind
\* the next SEMICOLON, or ends in absence where there is none
C8_AbortAndResync(r) ==
    /\ program' = program
    /\ IF HasSemicolon(Unread(r.p))
       THEN /\ ppc' = "loop"
            /\ Unread(parser') = AfterFirstSemicolon(Unread(r.p))
       ELSE ppc' = "done" /\ parsed' = None

C9_ExactlyOneDiagnostic ==
    [][(HasIllegal /\ ppc = "loop" /\ ppc' = "done") =>
          /\ Len(parser'.errors) = Len(parser.errors) + 1
          /\ parsed' = None]_vars

\* C9 as amended: an ILLEGAL token anywhere in the input is fatal; parsing
\* stops at it, parse_program returns absence, and exactly one diagnostic is
\* recorded for the ILLEGAL token itself, the last of the list; it is the
\* only diagnostic of that step when the token stands where a statement
\* begins, and it follows the diagnostics of the statement it interrupts
\* (at least two) otherwise.
C9_IllegalIsFatal ==
    [][(HasIllegal /\ ppc = "loop" /\ ppc' = "done") =>
          /\ parsed' = None
          /\ parser'.current_token.type = "ILLEGAL"
          /\ Len(parser'.errors) >= 1
          /\ parser'.errors[Len(parser'.errors)].msg = "illegal"
          /\ Cardinality(IllegalErrors(parser'.errors))
                = Cardinality(IllegalErrors(parser.errors)) + 1
          /\ IllegalErrors(parser.errors) = {}
          /\ IF parser.current_token.type = "ILLEGAL"
             THEN Len(parser'.errors) = Len(parser.errors) + 1
             ELSE Len(parser'.errors) >= Len(parser.errors) + 3]_vars

\* an ILLEGAL token has cut a statement short: three diagnostics, absence
C9_Witness ==
    /\ HasIllegal /\ ppc = "done" /\ parsed = None
    /\ Len(parser.errors) = 3
    /\ parser.errors[1].actual = "ILLEGAL"
    /\ parser.errors[3].msg = "illegal"

\* the precedence table as the claim states it
SpecPrecedence(token_type) ==
    CASE token_type \in {"EQ", "NEQ"} -> 1
      [] token_type \in {"LT", "GT"} -> 2
      [] token_type \in {"PLUS", "MINUS"} -> 3
      [] token_type \in {"ASTERISK", "SLASH"} -> 4

\* the node of an operand token
Operand(tok) ==
    CASE tok.type = "IDENT" -> Identifier(tok, tok.literal)
      [] tok.type = "INT" -> IntegerLiteral(tok, DigitsValue(tok.literal, 0))
      [] tok.type = "TRUE" -> BooleanLiteral(tok, TRUE)

Binary(op, left, right) == InfixExpression(op, op.literal, left, right)

\* the grouping the claim states for  a op1 b op2 c ;
SpecGrouping(w) ==
    IF SpecPrecedence(w[4].type) > SpecPrecedence(w[2].type)
    THEN Binary(w[2], Operand(w[1]), Binary(w[4], Operand(w[3]), Operand(w[5])))
    ELSE Binary(w[4], Binary(w[2], Operand(w[1]), Operand(w[3])), Operand(w[5]))

\* C10: for a op1 b op2 c ; with binary operators op1 and op2, parse_program
\* yields one expression statement, grouped (a op1 (b op2 c)) when op2 has
\* strictly higher precedence than op1 and ((a op1 b) op2 c) otherwise.
C10_PrecedenceGrouping ==
    (ppc = "done" /\ Tokens \in PrecedenceInputs) =>
        /\ parser.errors = <<>>
        /\ parsed = Some(<<ExpressionStatement(Tokens[1], SpecGrouping(Tokens))>>)

\* a + b * c ; and a * b + c ; have been parsed
C10_Witness ==
    /\ ppc = "done" /\ IsSome(parsed)
    /\ Tokens \in {<<t_a, t_plus, t_b, t_asterisk, t_c, t_semicolon>>,
                   <<t_a, t_asterisk, t_b, t_plus, t_c, t_semicolon>>,
                   <<t_1, t_minus, t_b, t_minus, t_c, t_semicolon>>}

\* every node of a tree, the tree's root first
RECURSIVE Nodes(_)
RECURSIVE NodesOfAll(_)
Nodes(n) ==
    <<n>> \o
    CASE n.kind = "ExpressionStatement" -> Nodes(n.expression)
      [] n.kind = "LetStatement" -> Nodes(n.name) \o Nodes(n.value)
      [] n.kind = "ReturnStatement" -> Nodes(n.return_value)
      [] n.kind = "BlockStatement" -> NodesOfAll(n.statements)
      [] n.kind \in {"Identifier", "IntegerLiteral", "BooleanLiteral"} -> <<>>
      [] n.kind = "FunctionLiteral" -> NodesOfAll(n.parameters) \o Nodes(n.body)
      [] n.kind = "PrefixExpression" -> Nodes(n.right_exp)
      [] n.kind = "InfixExpression" -> Nodes(n.left_exp) \o Nodes(n.right_exp)
      [] n.kind = "IfExpression" ->
            Nodes(n.condition) \o Nodes(n.consequence)
            \o (IF IsSome(n.alternative) THEN Nodes(Unwrap(n.alternative)) ELSE <<>>)
      [] n.kind = "CallExpression" -> Nodes(n.function) \o NodesOfAll(n.arguments)
NodesOfAll(ns) ==
    IF ns = <<>> THEN <<>> ELSE Nodes(Head(ns)) \o NodesOfAll(Tail(ns))

Returned == ppc = "done" /\ IsSome(parsed)
SemicolonExpected(e) == e.msg = "peek_expect" /\ e.expect = "SEMICOLON"

C15_BraceEndedParses ==
    (ppc = "done" /\ Tokens \in BraceEndedInputs) =>
        /\ parser.errors = <<>>
        /\ IsSome(parsed)
        /\ Len(Unwrap(parsed)) = 1
        /\ Unwrap(parsed)[1].kind = "ExpressionStatement"
        /\ Unwrap(parsed)[1].expression.kind =
              (IF Tokens[1].type = "IF" THEN "IfExpression" ELSE "FunctionLiteral")
        /\ Tokens \in IfInputs => IsNone(Unwrap(parsed)[1].expression.alternative)
        /\ Tokens \in IfElseInputs => IsSome(Unwrap(parsed)[1].expression.alternative)

InfixOperators ==
    {<<"+">>, <<"-">>, <<"*">>, <<"/">>, <<"<">>, <<">">>, <<"=", "=">>, <<"!", "=">>}
PrefixOperators == {<<"!">>, <<"-">>}

\* C17: in every Program parse_program returns, an Infix node's operator is
\* one of + - * / < > == != and a Prefix node's operator is one of ! and -.
C17_OperatorStrings ==
    Returned =>
        \A i \in DOMAIN NodesOfAll(Unwrap(parsed)) :
            LET n == NodesOfAll(Unwrap(parsed))[i]
            IN  /\ n.kind = "InfixExpression" => n.operator \in InfixOperators
                /\ n.kind = "PrefixExpression" => n.operator \in PrefixOperators

\* the statement at the current token has the shape LET IDENT ASSIGN
\* Expression SEMICOLON, e being the parse of what follows ASSIGN
LetShape(e) ==
    /\ current_token_is(parser, "LET")
    /\ peek_token_is(parser, "IDENT")
    /\ peek_token_is(next_token(parser), "ASSIGN")
    /\ e.ok
    /\ peek_token_is(e.p, "SEMICOLON")

----------------------------------------------------------------------------
(* Whole runs: a text is lexed, parsed and evaluated, as test_eval does *)

\* if (<c>) {<a>;} and, with an else block, if (<c>) {<a>;} else {<b>;},
\* followed by `tail`
IfText(c, a, alt, tail) ==
    S_if \o <<" ", "(">> \o c \o <<")", " ", "{">> \o a \o <<";", "}">>
    \o (IF IsNone(alt) THEN <<>>
        ELSE <<" ">> \o S_else \o <<" ", "{">> \o Unwrap(alt) \o <<";", "}">>)
    \o tail

OneLessTwo == <<"1", " ", "<", " ", "2">>
RunConds == {S_true, S_false, <<"1">>, <<"0">>, OneLessTwo}
RunValues == {<<"1", "0">>, <<"2", "0">>, S_true}
RunAlts == {None} \cup {Some(b) : b \in RunValues}
RunTails == {<<";">>, <<";", ";">>}
RunIfTexts ==
    {IfText(c, a, alt, tail) : c \in RunConds, a \in RunValues, alt \in RunAlts,
                               tail \in RunTails}
RunOtherTexts == {<<"1", "0", ";">>, <<"!">> \o S_true \o <<";">>}
RunTexts == RunIfTexts \cup RunOtherTexts

RunInit ==
    /\ \E input \in RunTexts :
           /\ text = Some(input)
           /\ parser = ParserNew(LexerOf(input))
    /\ tree = None
    /\ program = <<>>
    /\ parsed = None
    /\ ppc = "loop"
    /\ EvaluatorIdle
    /\ LexerIdle

\* program.expect(..) on None: the run panics
RunExpectProgram ==
    /\ ppc = "done" /\ IsNone(parsed) /\ pc = "idle"
    /\ pc' = "panicked"
    /\ UNCHANGED <<mode, stmts, idx, result, overflow_checks, pvars, lvars>>

\* Eval::eval_program on the program that was parsed
RunEvalProgram ==
    /\ ppc = "done" /\ IsSome(parsed) /\ pc = "idle"
    /\ mode' = "program"
    /\ stmts' = Unwrap(parsed)
    /\ idx' = 0
    /\ result' = NULL
    /\ pc' = "loop"
    /\ UNCHANGED <<overflow_checks, pvars, lvars>>

RunNext ==
    \/ ParseEof
    \/ ParseIllegal
    \/ ParseStatementOk
    \/ ParseStatementFailed
    \/ RunExpectProgram
    \/ RunEvalProgram
    \/ EvalStatementsStep
    \/ EvalStatementsReturn

RunSpec == RunInit /\ [][RunNext]_vars

\* the value a condition or a block of the texts above stands for
SpecValue(src) ==
    CASE src = S_true -> BOOLEAN_TRUE
      [] src = S_false -> BOOLEAN_FALSE
      [] src = OneLessTwo -> BOOLEAN_TRUE
      [] OTHER -> Integer(ParseI64(src).val)

SpecIfValue(c, a, alt) ==
    IF SpecTruthy(SpecValue(c)) THEN SpecValue(a)
    ELSE IF IsSome(alt) THEN SpecValue(Unwrap(alt))
    ELSE NULL

\* C16: a run on `if (<c>) {<a>;};` or `if (<c>) {<a>;} else {<b>;};` parses,
\* does not panic, and returns the value of <a> when <c> is truthy, that of
\* <b> when <c> is falsy and there is an else block, and Null otherwise.
C16_IfRunYields ==
    \A c \in RunConds, a \in RunValues, alt \in RunAlts :
        text = Some(IfText(c, a, alt, <<";">>)) =>
            /\ ppc = "done" => IsSome(parsed)
            /\ pc # "panicked"
            /\ pc = "returned" => result = SpecIfValue(c, a, alt)

\* with a second semicolon behind it the same statement parses and runs
C16_TwoSemicolonsRun ==
    \A c \in RunConds \ {OneLessTwo}, a \in RunValues, alt \in RunAlts :
        text = Some(IfText(c, a, alt, <<";", ";">>)) =>
            /\ ppc = "done" => IsSome(parsed)
            /\ pc # "panicked"
            /\ pc = "returned" => result = SpecIfValue(c, a, alt)

----------------------------------------------------------------------------
(* Printing and parsing again: a Program's to_string is given to the parser *)


PrintNames == {<<"a">>, <<"b">>}
PrintLeaves ==
    {Ident(n) : n \in PrintNames}
    \cup {IntLit(0), IntLit(10), NegLit(1), BoolLit(TRUE), BoolLit(FALSE)}
PrintPrefixes == {Bang(e) : e \in PrintLeaves} \cup {Minus(e) : e \in PrintLeaves}
PrintOperators ==
    {t_plus, t_minus, t_asterisk, t_slash, t_lt, t_gt, t_eq, t_neq}
PrintInfixes ==
    {Infix(op, l, r) : op \in PrintOperators, l \in PrintLeaves, r \in PrintLeaves}
PrintCalls ==
    {Call(Ident(n), args) : n \in PrintNames, args \in SeqsUpTo(PrintLeaves, MaxArgs)}
\* operands of the deeper expressions
PrintParts ==
    {Ident(<<"a">>), IntLit(1),
     Plus(Ident(<<"a">>), Ident(<<"b">>)), Plus(IntLit(1), Ident(<<"a">>)),
     Call(Ident(<<"a">>), <<Ident(<<"b">>)>>), Bang(Ident(<<"a">>))}
PrintNested ==
    {Plus(l, r) : l \in PrintParts, r \in PrintParts}
    \cup {Call(Ident(<<"a">>), <<l, r>>) : l \in PrintParts, r \in PrintParts}
    \cup {Call(l, <<r>>) : l \in PrintParts, r \in PrintParts}
PrintExpressions ==
    PrintLeaves \cup PrintPrefixes \cup PrintInfixes \cup PrintCalls \cup PrintNested

ExpressionPrograms ==
    {<<>>}
    \cup {<<ExprStmt(e)>> : e \in PrintExpressions}
    \cup {<<ExprStmt(e), ExprStmt(f)>> : e \in PrintParts, f \in PrintParts}
LetReturnPrograms ==
    {<<Let(n, v)>> : n \in PrintNames, v \in PrintLeaves \cup PrintParts}
    \cup {<<Return(v)>> : v \in PrintLeaves \cup PrintParts}
    \cup {<<Let(n, v), Return(w)>> : n \in PrintNames, v \in PrintParts, w \in PrintParts}
PrintPrograms == ExpressionPrograms \cup LetReturnPrograms

PrintInit ==
    /\ tree \in {Some(p) : p \in PrintPrograms}
    /\ text = None
    /\ ParserIdle
    /\ EvaluatorIdle
    /\ LexerIdle

\* program.to_string(), and Parser::new(Lexer::new(..)) on the text
PrintProgram ==
    /\ IsSome(tree) /\ IsNone(text) /\ ppc = "idle"
    /\ \E printed \in {program_to_string(Unwrap(tree))} :
           /\ text' = Some(printed)
           /\ parser' = ParserNew(LexerOf(printed))
    /\ program' = <<>>
    /\ parsed' = None
    /\ ppc' = "loop"
    /\ UNCHANGED <<tree, lex, lex_tok, lex_eofs, evars>>

PrintNext ==
    \/ PrintProgram
    \/ ParseEof
    \/ ParseIllegal
    \/ ParseStatementOk
    \/ ParseStatementFailed

PrintSpec == PrintInit /\ [][PrintNext]_vars

\* `return <value>;` and `let <name> = <value>;` as the specification has them
SpecReturnText(statement) ==
    S_return \o <<" ">> \o expression_to_string(statement.return_value) \o <<";">>
SpecLetText(statement) ==
    S_let \o <<" ">> \o expression_to_string(statement.name) \o <<" ", "=", " ">>
    \o expression_to_string(statement.value) \o <<";">>

SpecStatementText(statement) ==
    IF statement.kind = "ReturnStatement" THEN SpecReturnText(statement)
    ELSE SpecLetText(statement)

RECURSIVE SpecProgramText(_)
SpecProgramText(statements) ==
    IF statements = <<>> THEN <<>>
    ELSE SpecStatementText(Head(statements)) \o SpecProgramText(Tail(statements))

\* C19: a Return statement is printed as `return`, one space, its operand
\* and `;`, and a Let statement as `let <name> = <value>;`.
C19_ReturnAndLetText ==
    (IsSome(tree) /\ IsSome(text) /\ Unwrap(tree) \in LetReturnPrograms)
        => Unwrap(text) = SpecProgramText(Unwrap(tree))

\* the Let half of it
C19_LetText ==
    \A n \in PrintNames, v \in PrintLeaves \cup PrintParts :
        (tree = Some(<<Let(n, v)>>) /\ IsSome(text))
            => Unwrap(text) = SpecLetText(Let(n, v))

\* a tree with every stored token replaced by the same one
NoToken == Token("", <<>>)
RECURSIVE StripToken(_), StripTokens(_)
StripTokens(nodes) ==
    IF nodes = <<>> THEN <<>>
    ELSE <<StripToken(Head(nodes))>> \o StripTokens(Tail(nodes))
StripToken(n) ==
    CASE n.kind \in {"Identifier", "IntegerLiteral", "BooleanLiteral"} ->
            [n EXCEPT !.token = NoToken]
      [] n.kind = "FunctionLiteral" ->
            [n EXCEPT !.token = NoToken, !.parameters = StripTokens(@),
                      !.body = StripToken(@)]
      [] n.kind = "PrefixExpression" ->
            [n EXCEPT !.token = NoToken, !.right_exp = StripToken(@)]
      [] n.kind = "InfixExpression" ->
            [n EXCEPT !.token = NoToken, !.left_exp = StripToken(@),
                      !.right_exp = StripToken(@)]
      [] n.kind = "IfExpression" ->
            [n EXCEPT !.token = NoToken, !.condition = StripToken(@),
                      !.consequence = StripToken(@),
                      !.alternative = StripTokens(@)]
      [] n.kind = "CallExpression" ->
            [n EXCEPT !.token = NoToken, !.function = StripToken(@),
                      !.arguments = StripTokens(@)]
      [] n.kind = "ExpressionStatement" ->
            [n EXCEPT !.token = NoToken, !.expression = StripToken(@)]
      [] n.kind = "LetStatement" ->
            [n EXCEPT !.token = NoToken, !.name = StripToken(@),
                      !.value = StripToken(@)]
      [] n.kind = "ReturnStatement" ->
            [n EXCEPT !.token = NoToken, !.return_value = StripToken(@)]
      [] n.kind = "BlockStatement" ->
            [n EXCEPT !.token = NoToken, !.statements = StripTokens(@)]

Reparsed == IsSome(tree) /\ IsSome(text) /\ ppc = "done" /\ IsSome(parsed)

\* C20: when the text printed for a program of expression statements parses
\* again, the program parsed is the program printed, the tokens stored in
\* the nodes aside, and so its text is the text that was parsed.
C20_PrintRoundTrip ==
    (Reparsed /\ Unwrap(tree) \in ExpressionPrograms)
        => /\ StripTokens(Unwrap(parsed)) = StripTokens(Unwrap(tree))
           /\ program_to_string(Unwrap(parsed)) = Unwrap(text)

\* a + (a + b) was printed as (a + (a + b)); and parsed again
C20_Witness ==
    /\ Reparsed
    /\ tree = Some(<<ExprStmt(Plus(Ident(<<"a">>),
                                   Plus(Ident(<<"a">>), Ident(<<"b">>))))>>)
    /\ text = Some(<<"(", "a", " ", "+", " ", "(", "a", " ", "+", " ", "b", ")", ")",
                     ";">>)
    /\ Len(Unwrap(parsed)) = 1

----------------------------------------------------------------------------
(* Claims about the arithmetic of the evaluator, checked under Spec *)

\* some division of the tree has a right operand whose value is Integer(0)
DividesByZero(statements) ==
    \E nodes \in {NodesOfAll(statements)} :
        \E i \in DOMAIN nodes :
            /\ nodes[i].kind = "InfixExpression"
            /\ nodes[i].operator = <<"/">>
            /\ eval_expression(nodes[i].right_exp) = Integer(0)

\* C21: eval_program returns a value and does not abort unless some division
\* of the tree has a right operand equal to 0; negation, addition,
\* subtraction, multiplication and division whose exact result is outside
\* the i64 range do not abort.
C21_EvalTotal ==
    (mode = "program" /\ pc = "panicked") => DividesByZero(stmts)

\* the value of an operand of the arithmetic
OperandValue(e) ==
    CASE e.kind = "IntegerLiteral" -> Integer(e.int)
      [] e.kind = "BooleanLiteral" -> Boolean(e.bool)
      [] OTHER -> NULL

\* the reference table of the infix operators
SpecInfix(operator, left, right) ==
    IF left.type = "INTEGER" /\ right.type = "INTEGER"
    THEN CASE operator = <<"+">> -> Integer(left.int + right.int)
           [] operator = <<"-">> -> Integer(left.int - right.int)
           [] operator = <<"*">> -> Integer(left.int * right.int)
           [] operator = <<"/">> /\ right.int # 0 ->
                 Integer(TruncDiv(left.int, right.int))
           [] operator = <<"<">> -> Boolean(left.int < right.int)
           [] operator = <<">">> -> Boolean(left.int > right.int)
           [] operator = <<"=", "=">> -> Boolean(left.int = right.int)
           [] operator = <<"!", "=">> -> Boolean(left.int # right.int)
           [] OTHER -> NULL
    ELSE IF left.type = "BOOLEAN" /\ right.type = "BOOLEAN"
    THEN CASE operator = <<"=", "=">> -> Boolean(left.bool = right.bool)
           [] operator = <<"!", "=">> -> Boolean(left.bool # right.bool)
           [] OTHER -> NULL
    ELSE NULL

\* the program is one infix expression on two operands of the arithmetic
\* and no division by zero
InfixCase ==
    /\ mode = "program"
    /\ Len(stmts) = 1
    /\ stmts[1].kind = "ExpressionStatement"
    /\ stmts[1].expression.kind = "InfixExpression"
    /\ stmts[1].expression.left_exp \in ArithOperands
    /\ stmts[1].expression.right_exp \in ArithOperands
    /\ ~(stmts[1].expression.operator = <<"/">>
         /\ OperandValue(stmts[1].expression.right_exp) = Integer(0))

\* the entry of the reference table for the program's expression
InfixEntry ==
    SpecInfix(stmts[1].expression.operator,
              OperandValue(stmts[1].expression.left_exp),
              OperandValue(stmts[1].expression.right_exp))

\* C22: an infix expression evaluates to the entry of the reference table
\* for its operator and the values of its operands, whatever the values.
C22_InfixTable ==
    InfixCase => (pc # "panicked" /\ (pc = "returned" => result = InfixEntry))

\* the table holds wherever its entry is a value of the i64 range
C22_InfixTableInRange ==
    (InfixCase /\ (InfixEntry.type = "INTEGER" => InI64(InfixEntry.int)))
        => (pc # "panicked" /\ (pc = "returned" => result = InfixEntry))

----------------------------------------------------------------------------
(* Further claims about the parser, checked under ParseSpec *)

IsPrefixOf(s, t) == Len(s) <= Len(t) /\ SubSeq(t, 1, Len(s)) = s
StatementErrors(errors) == {i \in DOMAIN errors : errors[i].msg = "parse_statement"}

\* C23: after a statement has failed, parse_program skips the tokens up to
\* and including the next SEMICOLON and goes on with the token behind it;
\* where EOF or ILLEGAL comes first, parsing ends at once with absence.  No
\* step removes a diagnostic: the errors of before are a prefix of the
\* errors of after, and a failed statement adds its own.
C23_RecoveryAtSemicolon ==
    [][/\ ppc = "loop" => IsPrefixOf(parser.errors, parser'.errors)
       /\ \A r \in {parse_statement(parser)} :
             (AtStatement /\ ~r.ok) =>
                 /\ program' = program
                 /\ Len(parser'.errors) > Len(r.p.errors)
                 /\ IsPrefixOf(r.p.errors, parser'.errors)
                 /\ IF HasSemicolon(Unread(r.p))
                    THEN /\ ppc' = "loop" /\ parsed' = parsed
                         /\ Unread(parser') = AfterFirstSemicolon(Unread(r.p))
                    ELSE ppc' = "done" /\ parsed' = None]_vars

\* two statements have failed, the second behind the SEMICOLON the recovery
\* from the first went to, and a statement was parsed in between or after
C23_Witness ==
    /\ ppc = "loop"
    /\ Cardinality(StatementErrors(parser.errors)) = 2
    /\ \E i \in DOMAIN Tokens : i > 1 /\ i < Len(Tokens) /\ Tokens[i].type = "SEMICOLON"
    /\ Unread(parser) # <<>>

\* the routine that parses the construct beginning at p's current token
\* ends, where it succeeds, on a token of kind `last`
EndsOn(r, last) == r.ok => r.p.current_token.type = last

\* C24: a parse routine that succeeds returns with current_token on the last
\* token of its construct: a statement on its SEMICOLON, an if-expression
\* and a function literal on their closing RBRACE, a grouped expression on
\* its RPAREN.
C24_CursorProtocol ==
    AtStatement =>
        /\ \A r \in {parse_statement(parser)} : EndsOn(r, "SEMICOLON")
        /\ current_token_is(parser, "IF") =>
              \A r \in {parse_if_expression(parser)} : EndsOn(r, "RBRACE")
        /\ current_token_is(parser, "FUNCTION") =>
              \A r \in {parse_function_literal(parser)} :
                  (r.ok /\ ~current_token_is(r.p, "EOF")) => EndsOn(r, "RBRACE")
        /\ current_token_is(parser, "LPAREN") =>
              \A r \in {parse_grouped_expression(parser)} : EndsOn(r, "RPAREN")

\* what holds of it: statements, function literals whose block is closed,
\* and grouped expressions end on their last token
C24_AllButIf ==
    AtStatement =>
        /\ \A r \in {parse_statement(parser)} : EndsOn(r, "SEMICOLON")
        /\ current_token_is(parser, "FUNCTION") =>
              \A r \in {parse_function_literal(parser)} :
                  (r.ok /\ ~current_token_is(r.p, "EOF")) => EndsOn(r, "RBRACE")
        /\ current_token_is(parser, "LPAREN") =>
              \A r \in {parse_grouped_expression(parser)} : EndsOn(r, "RPAREN")

\* an IF of the input is followed by a token that is not LPAREN
BareIf == \E i \in DOMAIN Tokens : Tokens[i].type = "IF" /\ (i < Len(Tokens) => Tokens[i + 1].type # "LPAREN")

\* C25: where the token behind IF is not LPAREN, parse_if_expression fails
\* and no If node is built: no Program is returned for such an input.
C25_IfNeedsParen ==
    /\ (AtStatement /\ current_token_is(parser, "IF") /\ ~peek_token_is(parser, "LPAREN"))
          => \A r \in {parse_if_expression(parser)} : ~r.ok
    /\ (Returned /\ BareIf)
          => \A nodes \in {NodesOfAll(Unwrap(parsed))} :
                 \A i \in DOMAIN nodes : nodes[i].kind # "IfExpression"

\* what the code has in its place: the condition ends on an RPAREN
C25_ConditionEndsOnParen ==
    (AtStatement /\ current_token_is(parser, "IF"))
        => \A r \in {parse_if_expression(parser)} :
               r.ok => \E c \in {parse_expression(next_token(parser), LOWEST)} :
                           c.ok /\ current_token_is(c.p, "RPAREN")

FunctionLiterals(statements) ==
    {n \in {NodesOfAll(statements)[i] : i \in DOMAIN NodesOfAll(statements)} :
        n.kind = "FunctionLiteral"}
IdentParameter(e) == e.kind = "Identifier" /\ e.token.type = "IDENT"

\* C26: every parameter of a FunctionLiteral node the parser returns is an
\* Identifier built from an IDENT token; a parameter position holding a
\* token of another kind makes parse_function_literal fail.
C26_ParametersAreIdents ==
    /\ Returned =>
          \A f \in FunctionLiterals(Unwrap(parsed)) :
              \A i \in DOMAIN f.parameters : IdentParameter(f.parameters[i])
    /\ (AtStatement /\ current_token_is(parser, "FUNCTION")) =>
          \A r \in {parse_function_literal(parser)} :
              r.ok => \A i \in DOMAIN r.node.parameters :
                          IdentParameter(r.node.parameters[i])

\* what holds of it: every parameter is an Identifier node whose name is the
\* text of its token, whatever the token's kind, EOF and ILLEGAL excepted
C26_ParametersAreTokens ==
    (AtStatement /\ current_token_is(parser, "FUNCTION")) =>
        \A r \in {parse_function_literal(parser)} :
            r.ok => \A i \in DOMAIN r.node.parameters :
                        /\ r.node.parameters[i].kind = "Identifier"
                        /\ r.node.parameters[i].ident = r.node.parameters[i].token.literal
                        /\ r.node.parameters[i].token.type \notin {"EOF", "ILLEGAL"}

\* C27: an LPAREN behind an identifier or a function literal is parsed as a
\* Call of the expressions between it and its RPAREN, COMMA between them,
\* in the order of the input; the call binds tighter than every prefix and
\* binary operator.  Each sentence with calls is parsed to its expression,
\* and a + add(b * c) + d; is printed as ((a + add((b * c))) + d);
C27_CallsBindTightest ==
    ppc = "done" =>
        /\ \A c \in CallCases :
              Tokens = c.tokens \o <<t_semicolon>> =>
                  /\ IsSome(parsed)
                  /\ StripTokens(Unwrap(parsed))
                         = StripTokens(<<ExpressionStatement(c.tokens[1], c.node)>>)
        /\ Tokens = Scenario27.tokens \o <<t_semicolon>> =>
              /\ IsSome(parsed)
              /\ program_to_string(Unwrap(parsed))
                    = <<"(", "(", "a", " ", "+", " ", "a", "d", "d", "(", "(", "b", " ",
                        "*", " ", "c", ")", ")", ")", " ", "+", " ", "d", ")", ";">>

\* add(b * c, a) was parsed: a call of two arguments in that order
C27_Witness ==
    /\ Returned
    /\ Tokens = <<t_add, t_lparen, t_b, t_asterisk, t_c, t_comma, t_a, t_rparen,
                  t_semicolon>>
    /\ Len(Unwrap(parsed)) = 1
    /\ Unwrap(parsed)[1].expression.kind = "CallExpression"
    /\ Len(Unwrap(parsed)[1].expression.arguments) = 2
    /\ Unwrap(parsed)[1].expression.arguments[2] = Ident(<<"a">>)

\* the tokens of kind token_type among s
CountOf(s, token_type) == Cardinality({i \in DOMAIN s : s[i].type = token_type})
\* every LPAREN of s has its RPAREN behind it and every RPAREN its LPAREN
\* before it
Balanced(s) ==
    /\ CountOf(s, "LPAREN") = CountOf(s, "RPAREN")
    /\ \A n \in 0..Len(s) :
           CountOf(SubSeq(s, 1, n), "RPAREN") <= CountOf(SubSeq(s, 1, n), "LPAREN")

\* C29: whenever parse_program returns a Program, the LPAREN and RPAREN
\* tokens of the input are balanced: as many of the one as of the other, and
\* no prefix of the input with more RPAREN than LPAREN.
C29_ParensBalanced == Returned => Balanced(Tokens)

\* what holds of the parentheses: a Program is returned for an input that
\* is not balanced only where an LPAREN follows a token that is not a name,
\* and is then taken for a binary operator, where a token follows the closing
\* brace of an if-expression, or where a parenthesis is a function's parameter
OperandBeforeParen(s) ==
    \E i \in 1..(Len(s) - 1) :
        /\ s[i + 1].type = "LPAREN"
        /\ s[i].type \notin {"IDENT", "FUNCTION"}
HasIf(s) == \E i \in DOMAIN s : s[i].type = "IF"
HasFunction(s) == \E i \in DOMAIN s : s[i].type = "FUNCTION"
C29_BalancedButFor ==
    (Returned /\ ~Balanced(Tokens)) =>
        (OperandBeforeParen(Tokens) \/ HasIf(Tokens) \/ HasFunction(Tokens))

IsOperand(t) == t.type \in {"IDENT", "INT", "TRUE", "FALSE"}
IsLeaf(n) == n.kind \in {"Identifier", "IntegerLiteral", "BooleanLiteral"}
\* the tokens of the Identifier, IntegerLiteral and BooleanLiteral nodes of
\* the statements, in the order of the tree
LeafTokens(statements) ==
    [i \in DOMAIN SelectSeq(NodesOfAll(statements), IsLeaf) |->
        SelectSeq(NodesOfAll(statements), IsLeaf)[i].token]

\* C30: whenever parse_program returns a Program, every IDENT, INT, TRUE
\* and FALSE token of the input is the token of exactly one Identifier,
\* IntegerLiteral or BooleanLiteral node of the Program, in the order of the
\* input: no operand of the input is dropped.
C30_NoOperandDropped ==
    Returned =>
        SelectSeq(LeafTokens(Unwrap(parsed)), IsOperand) = SelectSeq(Tokens, IsOperand)

\* what holds of it: no operand is dropped from an input without IF
C30_AllButIf ==
    (Returned /\ ~HasIf(Tokens)) =>
        SelectSeq(LeafTokens(Unwrap(parsed)), IsOperand) = SelectSeq(Tokens, IsOperand)

----------------------------------------------------------------------------
(* Termination of the parser, checked under ParseLiveSpec *)

\* C28: parse_program terminates on every finite input, also where the lexer
\* answers ILLEGAL for ever: it returns in the end, and every turn of its
\* loop that does not return leaves fewer tokens unread than it found (the
\* loops of the statement parsers are inside the turn).
C28_ParseTerminates ==
    /\ <>(ppc = "done")
    /\ [][(ppc = "loop" /\ ppc' = "loop")
             => Len(Unread(parser')) < Len(Unread(parser))]_vars

\* parsing has returned at an ILLEGAL token that the lexer goes on answering,
\* after a statement before it had been parsed
C28_Witness ==
    /\ ppc = "done" /\ IsNone(parsed)
    /\ current_token_is(parser, "ILLEGAL") /\ peek_token_is(parser, "ILLEGAL")
    /\ Len(program) >= 1
====
